---- MODULE Spec2Model ----
(***************************************************************************)
(* Moderation Case Ledger, Warning Store and Escalation Engine of the      *)
(* autumn bot, modelled from autumn-database/src/impls/{cases,warnings,    *)
(* escalation}.rs and the handlers that call them.                         *)
(*                                                                         *)
(* The specifications share the store variables:                          *)
(*   Spec     - concurrent create_case transactions (one task per call)    *)
(*   SpecPool - the same calls, more of them than pooled connections       *)
(*   SpecEsc  - the warn command, the word-filter handler and the unwarn   *)
(*              command, one handler at a time, each handler advancing     *)
(*              await by await                                             *)
(*   SpecFault - the same handlers, store and platform calls failing       *)
(*   SpecCase - case lookup, reason edits and notes, one call at a time    *)
(*   SpecTier - the pure tier table escalation_timeout_seconds             *)
(***************************************************************************)
EXTENDS Integers, Sequences, FiniteSets, Bags, TLC

\* ------------------------------------------------------------------ bounds
MaxCalls == 4
MaxPoolCalls == 6
MaxHandlers == 4
MaxOthers == 1
MaxTicks == 2
MaxTimeoutCount == 100
MaxFaultHandlers == 3
MaxFaults == 2
MaxCaseCalls == 3
MaxCaseTicks == 1
MaxWarnCalls == 5
MaxWarnTicks == 2
MaxWarningNumber == 3
MaxRecording == 2
MaxWarnOthers == 1
MaxCacheCalls == 4
MaxCacheFaults == 2
MaxCodeLen == 2
MaxUtilCalls == 1
MaxHistoricalRows == 3
MaxCompatRuns == 2
MaxListRows == 2
MaxListCalls == 1
MaxEditCalls == 3
MaxEditTicks == 1
MaxLabelLen == 4
MaxCheckCalls == 3
MaxCheckTicks == 1
MaxBackfillCalls == 3
MaxUnwarnCalls == 4
MaxUnwarnFaults == 1

\* ------------------------------------------------------- program constants
\* PgPoolOptions::new().max_connections(5)
MaxConnections == 5
\* pub const DEFAULT_LLM_MENTION_RATE_LIMIT_WINDOW: Duration = Duration::from_secs(10)
DefaultLlmMentionRateLimitWindow == 10
\* pub const DEFAULT_LLM_MENTION_RATE_LIMIT_MAX_HITS: u64
DefaultLlmMentionRateLimitMaxHits == 2
\* filters.limit.clamp(1, 200)
MaxLimit == 200

Guilds == {1, 2}
Users == {1, 2}

\* the member most handlers of a run are about
Focus == <<1, 1>>

\* who acts: the invoking moderator of a command, the bot for automated actions
Actors == [moderator |-> 9, bot |-> 8]

\* the clock steps the runs take: one default warn window
TickSteps == {86400}

\* SQL NULL for the optional BIGINT columns (ids and durations are >= 0)
Null == -1

\* ---------------------------------------------------------------- state
VARIABLES
    now,                \* the wall clock read by now_unix_secs()
    ticks,              \* clock advances still to come (bounds the run)
    mod_cases,          \* committed rows of table mod_cases, in commit order
    mod_case_events,    \* committed rows of table mod_case_events, in commit order
    txs,                \* the create_case calls in flight: a bag of records, one per
                        \* call, holding its position (pc), arguments, locals and
                        \* uncommitted writes
    advisory_lock,      \* the keys on which some transaction holds pg_advisory_xact_lock
    calls,              \* invocations still to come (bounds the run)
    warnings,           \* rows of table warnings, in insertion order
    escalation_config,  \* per guild: the escalation_config row, <<>> when there is none
    moderation_cases,   \* the relation named by count_timeouts_in_window
    member_timeouts,    \* platform: per member, communication disabled until (0: not)
    sent,               \* platform: target DMs and modlog messages delivered
    h,                  \* the handler in progress, or the last one when pc = "idle"
    faults,             \* store and platform failures still to come (bounds the run)
    others,             \* handlers still to come for members other than Focus
    evaluated,          \* the last evaluations of the tier table, latest first
    ret,                \* the last direct call of a store function: its name,
                        \* arguments and return value
    warn_numbers,       \* per member: the warn_number values returned by the direct
                        \* calls of record_warning, in call order
    recording,          \* the direct calls of record_warning between their insert and
                        \* their count
    config_kind,        \* the cached configuration the run observes
    config_row,         \* its row for the guild in the database, <<>> when there is none
    cache_entry,        \* the payload under its cache key, <<>> when there is none
    procs,              \* the cached reads and config writes in progress
    last_write,         \* the value of the last config write once it has returned Ok,
                        \* <<>> before and while another write is in progress
    edits,              \* the update_case_reason and add_case_note calls in flight:
                        \* a set of records, one per call, holding its position
                        \* (pc), arguments and locals
    schema,             \* the unique index on (guild_id, case_code,
                        \* action_case_number) and the runs of
                        \* ensure_case_schema_compat so far
    llm_rate_limit,     \* CacheService: llm_rate_limit_window and
                        \* llm_rate_limit_max_hits
    checks              \* the word-filter messages being handled concurrently:
                        \* a set of records, one per message, holding the
                        \* position (pc) and the locals of its check_and_escalate

ledger == <<mod_cases, mod_case_events>>
config_cache == <<config_kind, config_row, cache_entry, procs, last_write>>
upkeep == <<edits, schema, llm_rate_limit, checks>>
calls_in_flight == <<txs, advisory_lock>>
escalation == <<warnings, escalation_config, moderation_cases, member_timeouts, sent, h,
               faults, others, evaluated, ret, warn_numbers, recording, config_cache,
               upkeep>>
vars == <<now, ticks, mod_cases, mod_case_events, txs, advisory_lock, calls,
          warnings, escalation_config, moderation_cases, member_timeouts, sent, h,
          faults, others, evaluated, ret, warn_numbers, recording,
          config_kind, config_row, cache_entry, procs, last_write, edits, schema,
          llm_rate_limit, checks>>

\* ---------------------------------------------------------- pure helpers
RECURSIVE SeqMax(_, _)
SeqMax(s, dflt) ==
    IF s = <<>> THEN dflt
    ELSE LET m == SeqMax(Tail(s), dflt) IN IF Head(s) > m THEN Head(s) ELSE m

Column(rows, f) == [i \in 1..Len(rows) |-> rows[i][f]]

\* (mutant) the arm of auto_timeout is missing
action_code_NoAutoTimeout(action) ==
    CASE action = "warn" -> "W"
      [] action = "ban" -> "B"
      [] action = "kick" -> "K"
      [] action = "timeout" -> "T"
      [] action = "unban" -> "UB"
      [] action = "untimeout" -> "UT"
      [] action = "unwarn" -> "UW"
      [] action = "unwarn_all" -> "UWA"
      [] action = "purge" -> "P"
      [] action = "terminate" -> "TR"
      [] action \in {"word_filter_timeout", "word_filter_delete",
                     "word_filter_log", "word_filter_warn"} -> "WF"
      [] OTHER -> "M"

\* fn action_code(action: &str) -> &'static str
action_code(action) ==
    CASE action = "warn" -> "W"
      [] action = "ban" -> "B"
      [] action = "kick" -> "K"
      [] action = "timeout" -> "T"
      [] action = "unban" -> "UB"
      [] action = "untimeout" -> "UT"
      [] action = "unwarn" -> "UW"
      [] action = "unwarn_all" -> "UWA"
      [] action = "purge" -> "P"
      [] action = "terminate" -> "TR"
      [] action \in {"word_filter_timeout", "word_filter_delete",
                     "word_filter_log", "word_filter_warn"} -> "WF"
      [] action = "auto_timeout" -> "AT"
      [] OTHER -> "M"

\* (mutant) the MAX is taken over the wrong column, action_case_number
NextCaseNumber_WrongColumn(cases, g) ==
    LET InGuild(r) == r.guild_id = g
    IN SeqMax(Column(SelectSeq(cases, InGuild), "action_case_number"), 0) + 1

\* SELECT COALESCE(MAX(case_number), 0) + 1 FROM mod_cases WHERE guild_id = $1
NextCaseNumber(cases, g) ==
    LET InGuild(r) == r.guild_id = g
    IN SeqMax(Column(SelectSeq(cases, InGuild), "case_number"), 0) + 1

\* SELECT COALESCE(MAX(action_case_number), 0) + 1 FROM mod_cases
\*  WHERE guild_id = $1 AND case_code = $2
NextActionCaseNumber(cases, g, code) ==
    LET Same(r) == r.guild_id = g /\ r.case_code = code
    IN SeqMax(Column(SelectSeq(cases, Same), "action_case_number"), 0) + 1

\* the NewCase argument of create_case
NewCase(g, target, moderator, action, reason, status, duration) ==
    [guild_id |-> g, target_user_id |-> target, moderator_user_id |-> moderator,
     action |-> action, reason |-> reason, status |-> status,
     duration_seconds |-> duration]

\* INSERT INTO mod_cases (...) VALUES ($1 .. $11, $11) RETURNING ...
CaseRow(id, nc, code, case_number, action_case_number, at) ==
    [id |-> id, guild_id |-> nc.guild_id, case_number |-> case_number,
     case_code |-> code, action_case_number |-> action_case_number,
     target_user_id |-> nc.target_user_id,
     moderator_user_id |-> nc.moderator_user_id, action |-> nc.action,
     reason |-> nc.reason, status |-> nc.status,
     duration_seconds |-> nc.duration_seconds,
     created_at |-> at, updated_at |-> at]

\* INSERT INTO mod_case_events (...) VALUES ($1, $2, 'created', $3, $4, $5)
CreatedEvent(id, row, at) ==
    [id |-> id, case_id |-> row.id, guild_id |-> row.guild_id,
     event_type |-> "created", actor_user_id |-> row.moderator_user_id,
     old_reason |-> <<>>, new_reason |-> <<>>, note |-> "Case created",
     created_at |-> at]

\* no store function has been called directly yet
\* the processes of the cached configuration: two readers and a writer
Readers == {"r1", "r2"}
Writers == {"w1"}

\* a process that runs nothing
IdleProc == [pc |-> "idle", loaded |-> <<>>, expect |-> <<>>, result |-> <<>>,
             error |-> FALSE]

\* no cached configuration is under observation
NoConfigCache ==
    /\ config_kind = ""
    /\ config_row = <<>>
    /\ cache_entry = <<>>
    /\ procs = [p \in Readers \cup Writers |-> IdleProc]
    /\ last_write = <<>>

\* no case edit is in flight; the index exists and the back-fill has not run
NoUpkeep ==
    /\ edits = {}
    /\ schema = [index |-> TRUE, runs |-> 0, result |-> "", changed |-> FALSE,
                 scan |-> "forward"]
    /\ llm_rate_limit = [window |-> [secs |-> DefaultLlmMentionRateLimitWindow,
                                     subsec_nanos |-> 0],
                         max_hits |-> DefaultLlmMentionRateLimitMaxHits]
    /\ checks = {}

NoCall ==
    [op |-> "", args |-> <<>>, label |-> <<>>, text |-> <<>>,
     count |-> 0, ok |-> FALSE, rows |-> <<>>]

\* no handler has run yet
IdleHandler ==
    [pc |-> "idle", kind |-> "", guild |-> 0, user |-> 0, warned |-> FALSE,
     warn_number |-> 0, checked |-> FALSE, result |-> <<>>,
     failed |-> {}, label |-> <<>>, error |-> FALSE,
     interaction |-> <<>>, confirmation |-> "", removed |-> 0]

\* ------------------------------------------------- create_case, step by step
\* the actions recorded in the ledger runs
LedgerActions == {"warn", "auto_timeout"}

\* a create_case call that has converted its arguments, read the clock and
\* computed case_code, and now awaits db.pool().begin()
NewTx(new_case, at) ==
    [pc |-> "acquiring", new_case |-> new_case, now |-> at,
     case_code |-> action_code(new_case.action),
     next_case_number |-> 0, next_action_case_number |-> 0,
     case_row |-> <<>>, event_row |-> <<>>]

InFlight == BagToSet(txs)

\* positions at which the call holds a pooled connection with an open transaction
InTx == {"begun", "locked", "numbered", "coded", "case_inserted", "event_inserted"}
\* (mutant) no position counts as holding the lock: a failing call keeps it
InCritical_None == {}

\* positions between pg_advisory_xact_lock returning and commit
InCritical == InTx \ {"begun"}

\* number of pooled connections checked out
ConnectionsInUse ==
    LET open == {r \in InFlight : r.pc \in InTx}
        RECURSIVE Sum(_)
        Sum(S) == IF S = {} THEN 0
                  ELSE LET r == CHOOSE x \in S : TRUE
                       IN CopiesIn(r, txs) + Sum(S \ {r})
    IN Sum(open) + Cardinality({e \in edits : e.pc \in {"begun", "locked"}})

\* (mutant) one key for the whole table instead of one per guild
LockKey_Global(new_case) == 0

\* the advisory-lock key of a call: .bind(guild_id_i64)
LockKey(new_case) == new_case.guild_id

\* (mutant) the lock statement is missing: nothing is waited for
LockGranted_NoLock(key) == TRUE

\* pg_advisory_xact_lock(key) returns only when no other transaction holds key
LockGranted(key) == key \notin advisory_lock

\* one call moves from record r to record r2
Step(r, r2) == txs' = (txs (-) SetToBag({r})) (+) SetToBag({r2})

\* nextval of the serial sequence behind an id column.  Sequence values are
\* seen only as ids of rows, so the values burnt by rolled-back inserts are
\* skipped: the next id is one more than the greatest id of any row that is
\* committed or written by an open transaction (same order, same equalities).
NextId(table, pending) ==
    LET open == UNION {{r[pending][i].id : i \in 1..Len(r[pending])} : r \in InFlight}
        used == {table[i].id : i \in 1..Len(table)} \cup open
    IN IF used = {} THEN 1 ELSE 1 + CHOOSE m \in used : \A x \in used : x <= m

\* the locals of a call after each statement of the transaction
AfterReadCaseNumber(r) ==
    [r EXCEPT !.pc = "numbered",
              !.next_case_number = NextCaseNumber(mod_cases, r.new_case.guild_id)]

AfterReadActionCaseNumber(r) ==
    [r EXCEPT !.pc = "coded",
              !.next_action_case_number =
                  NextActionCaseNumber(mod_cases, r.new_case.guild_id, r.case_code)]

AfterInsertCase(r) ==
    [r EXCEPT !.pc = "case_inserted",
              !.case_row = <<CaseRow(NextId(mod_cases, "case_row"), r.new_case, r.case_code,
                                     r.next_case_number, r.next_action_case_number, r.now)>>]

AfterInsertEvent(r) ==
    [r EXCEPT !.pc = "event_inserted",
              !.event_row = <<CreatedEvent(NextId(mod_case_events, "event_row"),
                                           r.case_row[1], r.now)>>]

\* what tx.commit() makes visible
CommitCases(cases, r) == cases \o r.case_row
CommitEvents(events, r) == events \o r.event_row

\* create_case is called
Call(g, action) ==
    /\ calls > 0
    /\ calls' = calls - 1
    /\ txs' = txs (+) SetToBag({NewTx(NewCase(g, 1, Actors.moderator, action, <<"r">>, "active", Null), now)})
    /\ UNCHANGED <<now, ticks, ledger, advisory_lock, escalation>>

\* let mut tx = db.pool().begin().await?  -- needs a free pooled connection
Begin(r) ==
    /\ r.pc = "acquiring"
    /\ ConnectionsInUse < MaxConnections
    /\ Step(r, [r EXCEPT !.pc = "begun"])
    /\ UNCHANGED <<now, ticks, ledger, advisory_lock, calls, escalation>>

\* SELECT pg_advisory_xact_lock($1)  -- blocks while another transaction holds the key
Lock(r) ==
    /\ r.pc = "begun"
    /\ LockGranted(LockKey(r.new_case))
    /\ advisory_lock' = advisory_lock \cup {LockKey(r.new_case)}
    /\ Step(r, [r EXCEPT !.pc = "locked"])
    /\ UNCHANGED <<now, ticks, ledger, calls, escalation>>

\* next_case_number: the statement sees the committed rows (READ COMMITTED;
\* the transaction itself has written nothing yet)
ReadCaseNumber(r) ==
    /\ r.pc = "locked"
    /\ Step(r, AfterReadCaseNumber(r))
    /\ UNCHANGED <<now, ticks, ledger, advisory_lock, calls, escalation>>

ReadActionCaseNumber(r) ==
    /\ r.pc = "numbered"
    /\ Step(r, AfterReadActionCaseNumber(r))
    /\ UNCHANGED <<now, ticks, ledger, advisory_lock, calls, escalation>>

\* (mutant) the INSERT runs on db.pool() instead of the transaction: the row
\* is visible at once
InsertCase_OnPool(r) ==
    /\ r.pc = "coded"
    /\ mod_cases' = mod_cases \o AfterInsertCase(r).case_row
    /\ Step(r, AfterInsertCase(r))
    /\ UNCHANGED <<now, ticks, mod_case_events, advisory_lock, calls, escalation>>

\* the case row is written inside the transaction.  (Under the guild's lock
\* the unique index on (guild_id, case_code, action_case_number) never
\* rejects the row.)
InsertCase(r) ==
    /\ r.pc = "coded"
    /\ Step(r, AfterInsertCase(r))
    /\ UNCHANGED <<now, ticks, ledger, advisory_lock, calls, escalation>>

InsertEvent(r) ==
    /\ r.pc = "case_inserted"
    /\ Step(r, AfterInsertEvent(r))
    /\ UNCHANGED <<now, ticks, ledger, advisory_lock, calls, escalation>>

\* tx.commit(): both rows become visible together, the xact lock is released
Commit(r) ==
    /\ r.pc = "event_inserted"
    /\ mod_cases' = CommitCases(mod_cases, r)
    /\ mod_case_events' = CommitEvents(mod_case_events, r)
    /\ advisory_lock' = advisory_lock \ {LockKey(r.new_case)}
    /\ txs' = txs (-) SetToBag({r})
    /\ UNCHANGED <<now, ticks, calls, escalation>>

\* any `?` returning Err, or the future being dropped: the Transaction is
\* dropped without commit, its writes are discarded and its lock released
Rollback(r) ==
    /\ r.pc \in InTx \cup {"acquiring"}
    /\ advisory_lock' = IF r.pc \in InCritical
                        THEN advisory_lock \ {LockKey(r.new_case)}
                        ELSE advisory_lock
    /\ txs' = txs (-) SetToBag({r})
    /\ UNCHANGED <<now, ticks, ledger, calls, escalation>>

\* the clock advances; a step is a whole window long and falls between
\* handlers and between calls; the clock starts with the first write (only differences of
\* clock readings are ever used)
Tick ==
    /\ ticks > 0
    /\ h.pc = "idle"
    /\ recording = {}
    /\ mod_cases # <<>> \/ warnings # <<>>
    /\ ticks' = ticks - 1
    /\ \E d \in TickSteps : now' = now + d
    /\ UNCHANGED <<ledger, calls_in_flight, calls, escalation>>

\* an empty store; at most c calls are made, o of them for members other than
\* Focus where the run tells them apart, and the clock advances t times
\* (the create_case runs take place within one reading of the clock:
\* create_case only copies it into created_at)
LedgerInit(c, t, o) ==
    /\ now = 0
    /\ ticks = t
    /\ mod_cases = <<>>
    /\ mod_case_events = <<>>
    /\ txs = EmptyBag
    /\ advisory_lock = {}
    /\ calls = c
    /\ warnings = <<>>
    /\ escalation_config = [g \in Guilds |-> <<>>]
    /\ moderation_cases = [exists |-> FALSE, rows |-> <<>>]
    /\ member_timeouts = [m \in Guilds \X Users |-> 0]
    /\ sent = 0
    /\ h = IdleHandler
    /\ faults = 0
    /\ others = o
    /\ evaluated = <<>>
    /\ ret = NoCall
    /\ warn_numbers = [m \in Guilds \X Users |-> <<>>]
    /\ recording = {}
    /\ NoConfigCache
    /\ NoUpkeep

CreateCaseSteps ==
    \/ \E r \in InFlight : Begin(r)
    \/ \E r \in InFlight : Lock(r)
    \/ \E r \in InFlight : ReadCaseNumber(r)
    \/ \E r \in InFlight : ReadActionCaseNumber(r)
    \/ \E r \in InFlight : InsertCase(r)
    \/ \E r \in InFlight : InsertEvent(r)
    \/ \E r \in InFlight : Commit(r)
    \/ \E r \in InFlight : Rollback(r)

Init == LedgerInit(MaxCalls, 0, 0)

Next ==
    \/ \E g \in Guilds, a \in LedgerActions : Call(g, a)
    \/ CreateCaseSteps

Spec == Init /\ [][Next]_vars

\* the connection pool under load: more callers than pooled connections
InitPool == LedgerInit(MaxPoolCalls, 0, 0)

NextPool ==
    \/ \E g \in Guilds : Call(g, "warn")
    \/ CreateCaseSteps

SpecPool == InitPool /\ [][NextPool]_vars

\* --------------------------------------------------------- Warning Store
\* INSERT INTO warnings (...) VALUES ($1, $2, $3, $4, $5)
WarningRow(id, g, u, moderator, reason, at) ==
    [id |-> id, guild_id |-> g, user_id |-> u, moderator_id |-> moderator,
     reason |-> reason, warned_at |-> at]

\* (mutant) the rows of the whole guild
WarningsOf_AnyUser(ws, g, u) ==
    LET Mine(w) == w.guild_id = g
    IN SelectSeq(ws, Mine)

\* the rows of one (guild, user), in table order
WarningsOf(ws, g, u) ==
    LET Mine(w) == w.guild_id = g /\ w.user_id = u
    IN SelectSeq(ws, Mine)

\* INSERT INTO warnings (...): the table with the new row, warned_at the clock
\* read at the call
InsertWarning(ws, g, u, moderator, reason) ==
    Append(ws, WarningRow(SeqMax(Column(ws, "id"), 0) + 1, g, u, moderator, reason, now))

\* (mutant) the count is taken over the last day only
CountWarnings_Windowed(ws, g, u) ==
    LET Recent(w) == w.warned_at > now - 86400
    IN Len(SelectSeq(WarningsOf(ws, g, u), Recent))

\* SELECT COUNT(*) FROM warnings WHERE guild_id = $1 AND user_id = $2
CountWarnings(ws, g, u) == Len(WarningsOf(ws, g, u))

\* record_warning with nothing else touching the table between its two
\* statements: the insert, then the count
record_warning(g, u, moderator, reason) ==
    LET ws == InsertWarning(warnings, g, u, moderator, reason)
    IN [warnings |-> ws, warn_number |-> CountWarnings(ws, g, u)]

\* clear_warnings: DELETE FROM warnings WHERE guild_id = $1 AND user_id = $2
clear_warnings(g, u) ==
    LET Others(w) == ~(w.guild_id = g /\ w.user_id = u)
    IN [warnings |-> SelectSeq(warnings, Others),
        deleted |-> Len(WarningsOf(warnings, g, u))]

\* (mutant) the newest warning has rank 1
Rank_NewestFirst(rows, w) ==
    Cardinality({x \in rows : \/ x.warned_at > w.warned_at
                              \/ x.warned_at = w.warned_at /\ x.id >= w.id})

\* ROW_NUMBER() OVER (ORDER BY warned_at ASC, id ASC) of row w among rows
Rank(rows, w) ==
    Cardinality({x \in rows : \/ x.warned_at < w.warned_at
                              \/ x.warned_at = w.warned_at /\ x.id <= w.id})

\* remove_warning_by_number: one statement ranks the member's rows and deletes
\* the row of rank warning_number; Ok(deleted_row.is_some())
remove_warning_by_number(g, u, warning_number) ==
    LET mine == WarningsOf(warnings, g, u)
        ranked == {mine[i] : i \in 1..Len(mine)}
        hit == {w \in ranked : Rank(ranked, w) = warning_number}
        Kept(w) == w \notin hit
    IN [warnings |-> SelectSeq(warnings, Kept), deleted |-> hit # {}]

\* ----------------------------------------------------- Escalation Engine
\* (mutant) the tier table starts one tier too high
escalation_timeout_seconds_Shifted(previous_timeout_count) ==
    CASE previous_timeout_count = 0 -> 1800
      [] previous_timeout_count = 1 -> 7200
      [] previous_timeout_count = 2 -> 86400
      [] OTHER -> 604800

\* pub fn escalation_timeout_seconds(previous_timeout_count: i64) -> i64
escalation_timeout_seconds(previous_timeout_count) ==
    CASE previous_timeout_count = 0 -> 300
      [] previous_timeout_count = 1 -> 1800
      [] previous_timeout_count = 2 -> 7200
      [] previous_timeout_count = 3 -> 86400
      [] OTHER -> 604800

\* (mutant) the enabled = TRUE condition is missing from the query
get_escalation_if_enabled_AnyRow(g) == escalation_config[g]

\* SELECT ... FROM escalation_config WHERE guild_id = $1 AND enabled = TRUE
get_escalation_if_enabled(g) ==
    LET Enabled(c) == c.enabled
    IN SelectSeq(escalation_config[g], Enabled)

\* SELECT COUNT(*) FROM warnings
\*  WHERE guild_id = $1 AND user_id = $2 AND warned_at >= $3
count_warnings_in_window(g, u, window_seconds) ==
    LET since == now - window_seconds
        InWindow(w) == w.guild_id = g /\ w.user_id = u /\ w.warned_at >= since
    IN Len(SelectSeq(warnings, InWindow))

\* SELECT COUNT(*) FROM moderation_cases
\*  WHERE guild_id = $1 AND target_user_id = $2 AND created_at >= $3
\*    AND action IN ('timeout', 'auto_timeout', 'word_filter_timeout')
\* The query fails when the relation does not exist.
count_timeouts_in_window(g, u, window_seconds) ==
    LET since == now - window_seconds
        Counted(c) == /\ c.guild_id = g
                      /\ c.target_user_id = u
                      /\ c.created_at >= since
                      /\ c.action \in {"timeout", "auto_timeout", "word_filter_timeout"}
    IN [ok |-> moderation_cases.exists,
        count |-> Len(SelectSeq(moderation_cases.rows, Counted))]

\* create_case run to its commit with no other call in between
CreateCaseTx(new_case) ==
    LET r == AfterInsertEvent(AfterInsertCase(AfterReadActionCaseNumber(
                 AfterReadCaseNumber([NewTx(new_case, now) EXCEPT !.pc = "locked"]))))
    IN [cases |-> CommitCases(mod_cases, r), events |-> CommitEvents(mod_case_events, r)]

\* format_case_label(&case.case_code, case.action_case_number), kept as a pair
CaseLabelOf(row) == <<row.case_code, row.action_case_number>>

\* (mutant) the case is kept only if the modlog publish goes through
CreateCase_PublishFirst(new_case, F) ==
    IF F \cap {"create_case", "publish"} # {}
    THEN [ok |-> FALSE, cases |-> mod_cases, events |-> mod_case_events, label |-> <<>>]
    ELSE LET tx == CreateCaseTx(new_case)
         IN [ok |-> TRUE, cases |-> tx.cases, events |-> tx.events,
             label |-> <<CaseLabelOf(tx.cases[Len(tx.cases)])>>]

\* create_case(db, new_case).await as its caller sees it: Err and nothing
\* written, or Ok(case) and the case committed
CreateCase(new_case, F) ==
    IF "create_case" \in F
    THEN [ok |-> FALSE, cases |-> mod_cases, events |-> mod_case_events, label |-> <<>>]
    ELSE LET tx == CreateCaseTx(new_case)
         IN [ok |-> TRUE, cases |-> tx.cases, events |-> tx.events,
             label |-> <<CaseLabelOf(tx.cases[Len(tx.cases)])>>]

\* Some(EscalationResult { timed_out: true, timeout_seconds, tier })
Triggered(timeout_secs, timeout_count) ==
    <<[timed_out |-> TRUE, timeout_seconds |-> timeout_secs, tier |-> timeout_count]>>

\* what a check_and_escalate that returns None leaves behind, having made
\* the calls `made` of which `failed` returned Err
NoAction(made, failed) ==
    [result |-> <<>>, cases |-> mod_cases, events |-> mod_case_events,
     timeouts |-> member_timeouts, sent |-> sent, made |-> made, failed |-> failed]

\* (mutant) a failed edit_member ends the check
OnEditMemberErr_Return == "return"

\* if let Err(source) = guild_id.edit_member(...).await { warn! / error! }:
\* the failure is logged and the check goes on
OnEditMemberErr == "log"

\* (mutant) the modlog message and the DM go out after a failed create_case too
Notified_Regardless(case_ok, F) ==
    (IF "publish" \in F THEN 0 ELSE 1) + (IF "dm" \in F THEN 0 ELSE 1)

\* steps 6 and 7 of check_and_escalate, reached only with Ok(case): the
\* modlog message and the DM, each best effort
Notified(case_ok, F) ==
    IF case_ok
    THEN (IF "publish" \in F THEN 0 ELSE 1) + (IF "dm" \in F THEN 0 ELSE 1)
    ELSE 0

\* check_and_escalate(http, db, guild_id, target_user, bot_user_id); F is the
\* set of store and platform calls that return Err if this invocation makes them
check_and_escalate(g, u, bot_user_id, F) ==
    LET config == get_escalation_if_enabled(g)
        m1 == {"config_read"}
        m2 == m1 \cup {"warn_count"}
        m3 == m2 \cup {"timeout_count"}
        m4 == m3 \cup {"edit_member"}
        m5 == m4 \cup {"create_case"}
        m7 == m5 \cup {"publish", "dm"}
    IN IF "config_read" \in F \/ config = <<>> THEN NoAction(m1, F \cap m1)
       ELSE
       LET warn_count == count_warnings_in_window(g, u, config[1].warn_window_seconds)
       IN IF "warn_count" \in F THEN NoAction(m2, F \cap m2)
          ELSE IF warn_count < config[1].warn_threshold THEN NoAction(m2, F \cap m2)
          ELSE
          LET counted == count_timeouts_in_window(g, u, config[1].timeout_window_seconds)
          IN IF "timeout_count" \in F \/ ~counted.ok
             THEN NoAction(m3, (F \cap m3) \cup {"timeout_count"})
             ELSE
             LET timeout_count == counted.count
                 timeout_secs == escalation_timeout_seconds(timeout_count)
                 until_unix == now + timeout_secs
                 timeouts == IF "edit_member" \in F THEN member_timeouts
                             ELSE [member_timeouts EXCEPT ![<<g, u>>] = until_unix]
                 reason == <<"Auto-escalation", warn_count, config[1].warn_window_seconds>>
                 case == CreateCase(NewCase(g, u, bot_user_id, "auto_timeout", reason,
                                            "completed", timeout_secs), F)
                 made == IF "create_case" \in F THEN m5 ELSE m7
             IN IF "edit_member" \in F /\ OnEditMemberErr = "return"
                THEN NoAction(m4, F \cap m4)
                ELSE [result |-> Triggered(timeout_secs, timeout_count),
                      cases |-> case.cases, events |-> case.events,
                      timeouts |-> timeouts,
                      sent |-> sent + Notified(case.ok, F),
                      made |-> made, failed |-> F \cap made]

\* create_case_and_publish: the case, then the best-effort modlog message;
\* Some(label) whenever the case was created
create_case_and_publish(new_case, F) ==
    LET case == CreateCase(new_case, F)
        made == IF "create_case" \in F THEN {"create_case"} ELSE {"create_case", "publish"}
    IN [cases |-> case.cases, events |-> case.events,
        sent |-> sent + (IF case.ok /\ "publish" \notin F THEN 1 ELSE 0),
        label |-> case.label, made |-> made]

\* ---------------------------------------------------------------- handlers
\* the failures injected into one step: any of the step's calls, within budget
Failing(calls_made) == {F \in SUBSET calls_made : Cardinality(F) <= faults}

StartHandler(kind, g, u) ==
    [IdleHandler EXCEPT !.kind = kind, !.guild = g, !.user = u]

\* the step of a handler that creates its case and publishes it
CreateCaseAndPublish(new_case, F) ==
    LET out == create_case_and_publish(new_case, F)
    IN /\ F \subseteq out.made
       /\ mod_cases' = out.cases
       /\ mod_case_events' = out.events
       /\ sent' = out.sent
       /\ h' = [h EXCEPT !.pc = "idle", !.failed = F, !.label = out.label]

\* a handler is invoked for member (g, u): within the run's budgets
Admit(g, u) ==
    /\ calls > 0
    /\ calls' = calls - 1
    /\ IF <<g, u>> = Focus
       THEN UNCHANGED others
       ELSE others > 0 /\ others' = others - 1

\* !warn <user>: record_warning(...).await?
WarnRecord(g, u) ==
    /\ h.pc = "idle"
    /\ Admit(g, u)
    /\ \E F \in Failing({"record_warning"}) :
         /\ faults' = faults - Cardinality(F)
         /\ IF "record_warning" \in F
            THEN /\ h' = [StartHandler("warn", g, u) EXCEPT !.failed = F, !.error = TRUE]
                 /\ UNCHANGED warnings
            ELSE LET rec == record_warning(g, u, Actors.moderator, <<"No reason provided">>)
                 IN /\ warnings' = rec.warnings
                    /\ h' = [StartHandler("warn", g, u) EXCEPT !.pc = "warn_case",
                                                               !.warned = TRUE,
                                                               !.warn_number = rec.warn_number]
    /\ UNCHANGED <<evaluated, ret, warn_numbers, recording, config_cache, now, ticks, ledger, calls_in_flight, escalation_config,
                   moderation_cases, member_timeouts, sent, upkeep>>

\* !warn, continued: create_case_and_publish(...), then the reply
WarnCase ==
    /\ h.pc = "warn_case"
    /\ \E F \in Failing({"create_case", "publish"}) :
         /\ faults' = faults - Cardinality(F)
         /\ CreateCaseAndPublish(NewCase(h.guild, h.user, Actors.moderator, "warn",
                                         <<"No reason provided">>, "active", Null), F)
    /\ UNCHANGED <<evaluated, ret, warn_numbers, recording, config_cache, now, ticks, calls_in_flight, calls, others, warnings,
                   escalation_config, moderation_cases, member_timeouts, upkeep>>

\* a message matching the guild's word filter, configured action warn_and_log:
\* the message is deleted, a warning recorded (a failure is logged only) and
\* the author told by DM
WordFilterWarn(g, u) ==
    /\ h.pc = "idle"
    /\ Admit(g, u)
    /\ \E F \in Failing({"record_warning", "dm"}) :
         /\ faults' = faults - Cardinality(F)
         /\ sent' = sent + (IF "dm" \in F THEN 0 ELSE 1)
         /\ IF "record_warning" \in F
            THEN /\ h' = [StartHandler("word_filter", g, u) EXCEPT !.pc = "wf_check",
                                                                   !.failed = F]
                 /\ UNCHANGED warnings
            ELSE LET rec == record_warning(g, u, Actors.bot, <<"Word filter">>)
                 IN /\ warnings' = rec.warnings
                    /\ h' = [StartHandler("word_filter", g, u) EXCEPT !.pc = "wf_check",
                                                                      !.failed = F,
                                                                      !.warned = TRUE,
                                                                      !.warn_number = rec.warn_number]
    /\ UNCHANGED <<evaluated, ret, warn_numbers, recording, config_cache, now, ticks, ledger, calls_in_flight, escalation_config,
                   moderation_cases, member_timeouts, upkeep>>

\* warn_and_log, continued: check_and_escalate(...).await
WordFilterCheck ==
    /\ h.pc = "wf_check"
    /\ \E F \in Failing({"config_read", "warn_count", "timeout_count", "edit_member",
                         "create_case", "publish", "dm"}) :
         LET out == check_and_escalate(h.guild, h.user, Actors.bot, F)
         IN /\ F \subseteq out.made
            /\ faults' = faults - Cardinality(F)
            /\ mod_cases' = out.cases
            /\ mod_case_events' = out.events
            /\ member_timeouts' = out.timeouts
            /\ sent' = out.sent
            /\ h' = [h EXCEPT !.pc = "wf_case", !.checked = TRUE, !.result = out.result,
                              !.failed = out.failed]
    /\ UNCHANGED <<evaluated, ret, warn_numbers, recording, config_cache, now, ticks, calls_in_flight, calls, others, warnings,
                   escalation_config, moderation_cases, upkeep>>

\* the word-filter case and its modlog message
WordFilterCase ==
    /\ h.pc = "wf_case"
    /\ \E F \in Failing({"create_case", "publish"}) :
         /\ faults' = faults - Cardinality(F)
         /\ CreateCaseAndPublish(NewCase(h.guild, h.user, Actors.bot, "word_filter_warn",
                                         <<"word">>, "completed", Null), F)
    /\ UNCHANGED <<evaluated, ret, warn_numbers, recording, config_cache, now, ticks, calls_in_flight, calls, others, warnings,
                   escalation_config, moderation_cases, member_timeouts, upkeep>>

\* what the component collector of the prompt yields within the timeout:
\* nothing, or the invoking moderator's click on one of the two buttons
Interactions == {<<>>, <<"confirm">>, <<"decline">>}

\* prompt_confirm_decline, after the prompt was sent: the ConfirmationResult
prompt_confirm_decline(interaction) ==
    IF interaction = <<>> THEN "TimedOut"
    ELSE IF interaction[1] = "decline" THEN "Declined"
    ELSE "Confirmed"

\* (mutant) Declined yields the interaction as Confirmed does
resolve_confirmation_result_DeclinedProceeds(confirmation, F) ==
    IF "respond" \in F THEN [ok |-> FALSE, some |-> FALSE]
    ELSE [ok |-> TRUE, some |-> confirmation \in {"Confirmed", "Declined"}]

\* resolve_confirmation_result: the prompt is rewritten (Err when the
\* platform refuses); Ok(Some(interaction)) for Confirmed, Ok(None) otherwise
resolve_confirmation_result(confirmation, F) ==
    IF "respond" \in F THEN [ok |-> FALSE, some |-> FALSE]
    ELSE [ok |-> TRUE, some |-> confirmation = "Confirmed"]

\* !unwarn <user> all: the prompt with its Confirm and Decline buttons is sent
UnwarnAllPrompt(g, u) ==
    /\ h.pc = "idle"
    /\ Admit(g, u)
    /\ \E F \in Failing({"prompt"}) :
         /\ faults' = faults - Cardinality(F)
         /\ IF "prompt" \in F
            THEN h' = [StartHandler("unwarn_all", g, u) EXCEPT !.failed = F, !.error = TRUE]
            ELSE h' = [StartHandler("unwarn_all", g, u) EXCEPT !.pc = "unwarn_prompt"]
    /\ UNCHANGED <<evaluated, ret, warn_numbers, recording, config_cache, now, ticks, ledger, calls_in_flight, escalation_config,
                   moderation_cases, member_timeouts, sent, warnings, upkeep>>

\* !unwarn all, continued: the moderator's answer or the timeout, then, once
\* confirmed, clear_warnings(...).await?
UnwarnAllClear ==
    /\ h.pc = "unwarn_prompt"
    /\ \E interaction \in Interactions, F \in Failing({"respond", "clear_warnings"}) :
         LET confirmation == prompt_confirm_decline(interaction)
             resolved == resolve_confirmation_result(confirmation, F)
             made == IF resolved.ok /\ resolved.some THEN {"respond", "clear_warnings"}
                     ELSE {"respond"}
         IN /\ F \subseteq made
            /\ faults' = faults - Cardinality(F)
            /\ IF ~resolved.ok
               THEN /\ h' = [h EXCEPT !.pc = "idle", !.interaction = interaction,
                                      !.confirmation = confirmation,
                                      !.failed = F, !.error = TRUE]
                    /\ UNCHANGED warnings
               ELSE IF ~resolved.some
               THEN /\ h' = [h EXCEPT !.pc = "idle", !.interaction = interaction,
                                      !.confirmation = confirmation]
                    /\ UNCHANGED warnings
               ELSE IF "clear_warnings" \in F
               THEN /\ h' = [h EXCEPT !.pc = "idle", !.interaction = interaction,
                                      !.confirmation = confirmation,
                                      !.failed = F, !.error = TRUE]
                    /\ UNCHANGED warnings
               ELSE /\ warnings' = clear_warnings(h.guild, h.user).warnings
                    /\ h' = [h EXCEPT !.pc = "unwarn_case", !.interaction = interaction,
                                      !.confirmation = confirmation,
                                      !.removed = clear_warnings(h.guild, h.user).deleted]
    /\ UNCHANGED <<evaluated, ret, warn_numbers, recording, config_cache, now, ticks, ledger, calls_in_flight, escalation_config,
                   moderation_cases, member_timeouts, sent, calls, others, upkeep>>

\* !unwarn all, continued: create_case_and_publish(...), then the reply
UnwarnAllCase ==
    /\ h.pc = "unwarn_case"
    /\ \E F \in Failing({"create_case", "publish"}) :
         /\ faults' = faults - Cardinality(F)
         /\ CreateCaseAndPublish(NewCase(h.guild, h.user, Actors.moderator, "unwarn_all",
                                         <<"No reason provided">>, "active", Null), F)
    /\ UNCHANGED <<evaluated, ret, warn_numbers, recording, config_cache, now, ticks, calls_in_flight, calls, others, warnings,
                   escalation_config, moderation_cases, member_timeouts, upkeep>>

\* !unwarn <user> <number>: remove_warning_by_number(...).await?; number 0 is
\* answered with a usage message
UnwarnRemove(g, u, warning_number) ==
    /\ h.pc = "idle"
    /\ Admit(g, u)
    /\ \E F \in Failing(IF warning_number = 0 THEN {} ELSE {"remove_warning_by_number"}) :
         /\ faults' = faults - Cardinality(F)
         /\ IF warning_number = 0
            THEN /\ h' = StartHandler("unwarn", g, u)
                 /\ UNCHANGED warnings
            ELSE IF "remove_warning_by_number" \in F
            THEN /\ h' = [StartHandler("unwarn", g, u) EXCEPT !.failed = F, !.error = TRUE]
                 /\ UNCHANGED warnings
            ELSE LET out == remove_warning_by_number(g, u, warning_number)
                 IN /\ warnings' = out.warnings
                    /\ h' = [StartHandler("unwarn", g, u) EXCEPT
                                !.pc = IF out.deleted THEN "unwarn_one_case" ELSE "idle",
                                !.removed = IF out.deleted THEN 1 ELSE 0]
    /\ UNCHANGED <<evaluated, ret, warn_numbers, recording, config_cache, now, ticks, ledger, calls_in_flight, escalation_config,
                   moderation_cases, member_timeouts, sent, upkeep>>

\* !unwarn <number>, continued: if removed { create_case_and_publish(...) }
UnwarnCase ==
    /\ h.pc = "unwarn_one_case"
    /\ \E F \in Failing({"create_case", "publish"}) :
         /\ faults' = faults - Cardinality(F)
         /\ CreateCaseAndPublish(NewCase(h.guild, h.user, Actors.moderator, "unwarn",
                                         <<"No reason provided">>, "active", Null), F)
    /\ UNCHANGED <<evaluated, ret, warn_numbers, recording, config_cache, now, ticks, calls_in_flight, calls, others, warnings,
                   escalation_config, moderation_cases, member_timeouts, upkeep>>

\* the escalation_config row of a guild as the configuration commands leave it
ConfigRow(g, enabled, threshold) ==
    [guild_id |-> g, enabled |-> enabled, warn_threshold |-> threshold,
     warn_window_seconds |-> 86400, timeout_window_seconds |-> 604800]

\* the configurations the runs start from: the guild of Focus has a row,
\* disabled, or enabled with threshold 3 (the default) or 2; the other
\* guilds have none
ConfigChoices(g) ==
    IF g = Focus[1]
    THEN {<<ConfigRow(g, FALSE, 3)>>, <<ConfigRow(g, TRUE, 3)>>, <<ConfigRow(g, TRUE, 2)>>}
    ELSE {<<>>}

\* the relation moderation_cases: no statement of the program creates it or
\* writes to it; it is missing, or it is there and holds no row of this program
ModerationCasesChoices ==
    {[exists |-> FALSE, rows |-> <<>>], [exists |-> TRUE, rows |-> <<>>]}

InitEsc ==
    /\ now = 0
    /\ ticks = MaxTicks
    /\ mod_cases = <<>>
    /\ mod_case_events = <<>>
    /\ txs = EmptyBag
    /\ advisory_lock = {}
    /\ calls = MaxHandlers
    /\ warnings = <<>>
    /\ escalation_config \in [Guilds -> UNION {ConfigChoices(g) : g \in Guilds}]
    /\ \A g \in Guilds : escalation_config[g] \in ConfigChoices(g)
    /\ moderation_cases \in ModerationCasesChoices
    /\ member_timeouts = [m \in Guilds \X Users |-> 0]
    /\ sent = 0
    /\ h = IdleHandler
    /\ faults = 0
    /\ others = MaxOthers
    /\ evaluated = <<>>
    /\ ret = NoCall
    /\ warn_numbers = [m \in Guilds \X Users |-> <<>>]
    /\ recording = {}
    /\ NoConfigCache
    /\ NoUpkeep

HandlerSteps ==
    \/ \E g \in Guilds, u \in Users : WarnRecord(g, u)
    \/ WarnCase
    \/ \E g \in Guilds, u \in Users : WordFilterWarn(g, u)
    \/ WordFilterCheck
    \/ WordFilterCase
    \/ \E g \in Guilds, u \in Users : UnwarnAllPrompt(g, u)
    \/ UnwarnAllClear
    \/ UnwarnAllCase

NextEsc ==
    \/ HandlerSteps
    \/ Tick

SpecEsc == InitEsc /\ [][NextEsc]_vars

\* the same handlers with store and platform calls failing: escalation is
\* enabled with threshold 2 for the guild of Focus, and up to MaxFaults calls
\* return Err
InitFault ==
    /\ now = 0
    /\ ticks = 0
    /\ mod_cases = <<>>
    /\ mod_case_events = <<>>
    /\ txs = EmptyBag
    /\ advisory_lock = {}
    /\ calls = MaxFaultHandlers
    /\ warnings = <<>>
    /\ escalation_config = [g \in Guilds |-> IF g = Focus[1] THEN <<ConfigRow(g, TRUE, 2)>>
                                                            ELSE <<>>]
    /\ moderation_cases \in ModerationCasesChoices
    /\ member_timeouts = [m \in Guilds \X Users |-> 0]
    /\ sent = 0
    /\ h = IdleHandler
    /\ faults = MaxFaults
    /\ others = 0
    /\ evaluated = <<>>
    /\ ret = NoCall
    /\ warn_numbers = [m \in Guilds \X Users |-> <<>>]
    /\ recording = {}
    /\ NoConfigCache
    /\ NoUpkeep

NextFault == HandlerSteps

SpecFault == InitFault /\ [][NextFault]_vars

\* the warn and unwarn commands on the warnings of Focus: at most
\* MaxUnwarnCalls invocations, of which up to MaxUnwarnFaults calls return Err
InitUnwarn ==
    /\ now = 0
    /\ ticks = 0
    /\ mod_cases = <<>>
    /\ mod_case_events = <<>>
    /\ txs = EmptyBag
    /\ advisory_lock = {}
    /\ calls = MaxUnwarnCalls
    /\ warnings = <<>>
    /\ escalation_config = [g \in Guilds |-> <<>>]
    /\ moderation_cases = [exists |-> FALSE, rows |-> <<>>]
    /\ member_timeouts = [m \in Guilds \X Users |-> 0]
    /\ sent = 0
    /\ h = IdleHandler
    /\ faults = MaxUnwarnFaults
    /\ others = 0
    /\ evaluated = <<>>
    /\ ret = NoCall
    /\ warn_numbers = [m \in Guilds \X Users |-> <<>>]
    /\ recording = {}
    /\ NoConfigCache
    /\ NoUpkeep

NextUnwarn ==
    \/ WarnRecord(Focus[1], Focus[2])
    \/ WarnCase
    \/ UnwarnAllPrompt(Focus[1], Focus[2])
    \/ UnwarnAllClear
    \/ UnwarnAllCase
    \/ \E n \in 0..MaxWarningNumber : UnwarnRemove(Focus[1], Focus[2], n)
    \/ UnwarnCase

SpecUnwarn == InitUnwarn /\ [][NextUnwarn]_vars

\* ------------------------------------------------ case lookup and upkeep
\* (mutant) the guild is left out of the label lookup
FindCase_AnyGuild(cases, g, code, n) ==
    LET Labelled(r) == r.case_code = code /\ r.action_case_number = n
    IN SelectSeq(cases, Labelled)

\* SELECT ... FROM mod_cases
\*  WHERE guild_id = $1 AND case_code = $2 AND action_case_number = $3
FindCase(cases, g, code, n) ==
    LET Labelled(r) == r.guild_id = g /\ r.case_code = code /\ r.action_case_number = n
    IN SelectSeq(cases, Labelled)

\* get_case_by_label: fetch_optional, Some(case) or None
get_case_by_label(cases, g, code, n) ==
    LET found == FindCase(cases, g, code, n)
    IN IF found = <<>> THEN <<>> ELSE <<found[1]>>

\* ORDER BY created_at ASC, id ASC
RECURSIVE OrderEvents(_)
OrderEvents(rows) ==
    IF rows = <<>> THEN <<>>
    ELSE LET Before(a, b) == \/ a.created_at < b.created_at
                             \/ a.created_at = b.created_at /\ a.id < b.id
             i == CHOOSE k \in 1..Len(rows) :
                      \A j \in 1..Len(rows) : j = k \/ Before(rows[k], rows[j])
             Rest(j) == IF j < i THEN rows[j] ELSE rows[j + 1]
         IN <<rows[i]>> \o OrderEvents([j \in 1..(Len(rows) - 1) |-> Rest(j)])

\* CaseEvent { event_type, actor_user_id, old_reason, new_reason, note, created_at }
CaseEvent(row) ==
    [event_type |-> row.event_type, actor_user_id |-> row.actor_user_id,
     old_reason |-> row.old_reason, new_reason |-> row.new_reason,
     note |-> row.note, created_at |-> row.created_at]

\* get_case_events: the case id by label, then the events of that case in the
\* guild, oldest first; an empty list when the label matches no case
get_case_events(cases, events, g, code, n) ==
    LET found == FindCase(cases, g, code, n)
    IN IF found = <<>> THEN <<>>
       ELSE LET OfCase(e) == e.guild_id = g /\ e.case_id = found[1].id
                rows == OrderEvents(SelectSeq(events, OfCase))
            IN [i \in 1..Len(rows) |-> CaseEvent(rows[i])]

\* the next id of a table when no transaction is open
NextRowId(table) == SeqMax(Column(table, "id"), 0) + 1

\* (mutant) the event carries the new reason in both columns
ReasonUpdatedEvent_OldIsNew(id, case, actor, new_reason, at) ==
    [id |-> id, case_id |-> case.id, guild_id |-> case.guild_id,
     event_type |-> "reason_updated", actor_user_id |-> actor,
     old_reason |-> new_reason, new_reason |-> new_reason, note |-> "Reason edited",
     created_at |-> at]

\* INSERT INTO mod_case_events (...) VALUES ($1, $2, 'reason_updated', $3..$7);
\* case is the row as SELECT ... FOR UPDATE read it
ReasonUpdatedEvent(id, case, actor, new_reason, at) ==
    [id |-> id, case_id |-> case.id, guild_id |-> case.guild_id,
     event_type |-> "reason_updated", actor_user_id |-> actor,
     old_reason |-> case.reason, new_reason |-> new_reason, note |-> "Reason edited",
     created_at |-> at]

\* INSERT INTO mod_case_events (...) VALUES ($1, $2, 'note_added', $3, $4, $5):
\* old_reason and new_reason stay NULL
NoteAddedEvent(id, case, actor, note, at) ==
    [id |-> id, case_id |-> case.id, guild_id |-> case.guild_id,
     event_type |-> "note_added", actor_user_id |-> actor,
     old_reason |-> <<>>, new_reason |-> <<>>, note |-> note, created_at |-> at]

\* the table with the row of the given id replaced
WithRow(cases, id, Changed(_)) ==
    [i \in 1..Len(cases) |-> IF cases[i].id = id THEN Changed(cases[i]) ELSE cases[i]]

\* update_case_reason run to its commit with no other call in between:
\* Ok(None) and a rollback when the label matches no case
update_case_reason(g, code, n, actor, new_reason) ==
    LET existing == FindCase(mod_cases, g, code, n)
    IN IF existing = <<>>
       THEN [cases |-> mod_cases, events |-> mod_case_events, value |-> <<>>]
       ELSE LET Updated(r) == [r EXCEPT !.reason = new_reason, !.updated_at = now]
                cases == WithRow(mod_cases, existing[1].id, Updated)
            IN [cases |-> cases,
                events |-> Append(mod_case_events,
                                  ReasonUpdatedEvent(NextRowId(mod_case_events), existing[1],
                                                     actor, new_reason, now)),
                value |-> <<Updated(existing[1])>>]

\* add_case_note run to its commit with no other call in between: Ok(false)
\* and a rollback when the label matches no case
add_case_note(g, code, n, actor, note) ==
    LET existing == FindCase(mod_cases, g, code, n)
    IN IF existing = <<>>
       THEN [cases |-> mod_cases, events |-> mod_case_events, value |-> FALSE]
       ELSE LET Touched(r) == [r EXCEPT !.updated_at = now]
            IN [cases |-> WithRow(mod_cases, existing[1].id, Touched),
                events |-> Append(mod_case_events,
                                  NoteAddedEvent(NextRowId(mod_case_events), existing[1],
                                                 actor, note, now)),
                value |-> TRUE]

\* the labels, reasons and notes the calls are made with
Labels == Guilds \X {action_code(a) : a \in LedgerActions} \X (1..2)
Reasons == {<<"first">>, <<"second">>}
Notes == {"note"}

\* a store function is called directly: within the run's budget
StoreCall ==
    /\ calls > 0
    /\ calls' = calls - 1

\* create_case(db, new_case), run to its commit
CaseCreate(g, action) ==
    /\ StoreCall
    /\ LET tx == CreateCaseTx(NewCase(g, 1, Actors.moderator, action, <<"r">>, "active", Null))
       IN /\ mod_cases' = tx.cases
          /\ mod_case_events' = tx.events
          /\ ret' = [NoCall EXCEPT !.op = "create_case", !.args = <<g, action>>,
                                     !.ok = TRUE, !.rows = <<tx.cases[Len(tx.cases)]>>]
    /\ UNCHANGED <<now, ticks, calls_in_flight, warnings, escalation_config, moderation_cases,
                   member_timeouts, sent, h, faults, others, evaluated, warn_numbers, recording, config_cache, upkeep>>

\* update_case_reason(db, guild_id, case_code, action_case_number, actor, new_reason)
CaseUpdateReason(l, new_reason) ==
    /\ StoreCall
    /\ LET out == update_case_reason(l[1], l[2], l[3], Actors.moderator, new_reason)
       IN /\ mod_cases' = out.cases
          /\ mod_case_events' = out.events
          /\ ret' = [NoCall EXCEPT !.op = "update_case_reason", !.label = l,
                                     !.text = new_reason, !.ok = out.value # <<>>,
                                     !.rows = out.value]
    /\ UNCHANGED <<now, ticks, calls_in_flight, warnings, escalation_config, moderation_cases,
                   member_timeouts, sent, h, faults, others, evaluated, warn_numbers, recording, config_cache, upkeep>>

\* add_case_note(db, guild_id, case_code, action_case_number, actor, note)
CaseAddNote(l, note) ==
    /\ StoreCall
    /\ LET out == add_case_note(l[1], l[2], l[3], Actors.moderator, note)
       IN /\ mod_cases' = out.cases
          /\ mod_case_events' = out.events
          /\ ret' = [NoCall EXCEPT !.op = "add_case_note", !.label = l,
                                     !.text = <<note>>, !.ok = out.value]
    /\ UNCHANGED <<now, ticks, calls_in_flight, warnings, escalation_config, moderation_cases,
                   member_timeouts, sent, h, faults, others, evaluated, warn_numbers, recording, config_cache, upkeep>>

\* get_case_by_label(db, guild_id, case_code, action_case_number)
CaseGetByLabel(l) ==
    /\ ret' = [NoCall EXCEPT !.op = "get_case_by_label", !.label = l,
                               !.rows = get_case_by_label(mod_cases, l[1], l[2], l[3])]
    /\ UNCHANGED <<now, ticks, ledger, calls_in_flight, calls, warnings, escalation_config,
                   moderation_cases, member_timeouts, sent, h, faults, others, evaluated, warn_numbers, recording, config_cache, upkeep>>

\* get_case_events(db, guild_id, case_code, action_case_number)
CaseGetEvents(l) ==
    /\ ret' = [NoCall EXCEPT !.op = "get_case_events", !.label = l,
                               !.rows = get_case_events(mod_cases, mod_case_events,
                                                        l[1], l[2], l[3])]
    /\ UNCHANGED <<now, ticks, ledger, calls_in_flight, calls, warnings, escalation_config,
                   moderation_cases, member_timeouts, sent, h, faults, others, evaluated, warn_numbers, recording, config_cache, upkeep>>

\* an empty store; at most MaxCaseCalls writing calls, reads at any time
InitCase == LedgerInit(MaxCaseCalls, MaxCaseTicks, 0)

NextCase ==
    \/ \E g \in Guilds, a \in LedgerActions : CaseCreate(g, a)
    \/ \E l \in Labels, r \in Reasons : CaseUpdateReason(l, r)
    \/ \E l \in Labels, n \in Notes : CaseAddNote(l, n)
    \/ \E l \in Labels : CaseGetByLabel(l)
    \/ \E l \in Labels : CaseGetEvents(l)
    \/ Tick

SpecCase == InitCase /\ [][NextCase]_vars

\* --------------------------------------- Warning Store, called directly
\* a Warning Store function is called for member <<g, u>>: within the run's
\* budget, and within the budget for members other than Focus
StoreCallFor(g, u) ==
    /\ StoreCall
    /\ IF <<g, u>> = Focus
       THEN others' = others
       ELSE others > 0 /\ others' = others - 1

\* record_warning(db, guild_id, user_id, moderator_id, reason), first statement:
\* the insert, on a connection of the pool, outside any transaction
StoreRecordInsert(g, u) ==
    /\ StoreCallFor(g, u)
    /\ Cardinality(recording) < MaxRecording
    /\ warnings' = InsertWarning(warnings, g, u, Actors.moderator, <<"r">>)
    /\ recording' = recording \cup {[call |-> calls, guild_id |-> g, user_id |-> u,
                                      warning_id |-> SeqMax(Column(warnings, "id"), 0) + 1]}
    /\ UNCHANGED <<now, ticks, ledger, calls_in_flight, escalation_config, moderation_cases,
                   member_timeouts, sent, h, faults, evaluated, ret, warn_numbers,
                   config_cache, upkeep>>

\* record_warning, second statement: the count, returned as warn_number
StoreRecordCount(p) ==
    /\ LET warn_number == CountWarnings(warnings, p.guild_id, p.user_id)
       IN /\ ret' = [NoCall EXCEPT !.op = "record_warning",
                                     !.args = <<p.guild_id, p.user_id>>,
                                     !.count = warn_number]
          /\ warn_numbers' = [warn_numbers EXCEPT ![<<p.guild_id, p.user_id>>] =
                                 Append(@, warn_number)]
    /\ recording' = recording \ {p}
    /\ UNCHANGED <<now, ticks, ledger, calls_in_flight, calls, warnings, escalation_config,
                   moderation_cases, member_timeouts, sent, h, faults, others, evaluated,
                   config_cache, upkeep>>

\* clear_warnings(db, guild_id, user_id)
StoreClearWarnings(g, u) ==
    /\ StoreCallFor(g, u)
    /\ LET out == clear_warnings(g, u)
       IN /\ warnings' = out.warnings
          /\ ret' = [NoCall EXCEPT !.op = "clear_warnings", !.args = <<g, u>>,
                                     !.count = out.deleted]
    /\ UNCHANGED <<now, ticks, ledger, calls_in_flight, escalation_config, moderation_cases,
                   member_timeouts, sent, h, faults, evaluated, warn_numbers,
                   recording, config_cache, upkeep>>

\* remove_warning_by_number(db, guild_id, user_id, warning_number)
StoreRemoveWarning(g, u, warning_number) ==
    /\ StoreCallFor(g, u)
    /\ LET out == remove_warning_by_number(g, u, warning_number)
       IN /\ warnings' = out.warnings
          /\ ret' = [NoCall EXCEPT !.op = "remove_warning_by_number",
                                     !.args = <<g, u, warning_number>>,
                                     !.ok = out.deleted]
    /\ UNCHANGED <<now, ticks, ledger, calls_in_flight, escalation_config, moderation_cases,
                   member_timeouts, sent, h, faults, evaluated, warn_numbers,
                   recording, config_cache, upkeep>>

\* an empty table; at most MaxWarnCalls calls, MaxWarnOthers of them for members
\* other than Focus, the clock advancing in between
InitWarn == LedgerInit(MaxWarnCalls, MaxWarnTicks, MaxWarnOthers)

NextWarn ==
    \/ \E g \in Guilds, u \in Users : StoreRecordInsert(g, u)
    \/ \E p \in recording : StoreRecordCount(p)
    \/ \E g \in Guilds, u \in Users : StoreClearWarnings(g, u)
    \/ \E g \in Guilds, u \in Users, n \in 0..MaxWarningNumber : StoreRemoveWarning(g, u, n)
    \/ Tick

SpecWarn == InitWarn /\ [][NextWarn]_vars

\* ------------------------------------------------- cached configuration
\* the configurations read through the cache that the runs observe: the modlog
\* channel (Option<u64>: set, cleared) and the AI toggle (bool, true when the
\* guild has no row)
ConfigKinds == {"modlog", "ai"}
ChannelIds == {100, 200}

\* the rows a write leaves for the guild: set_modlog_channel_id upserts the
\* channel, clear_modlog_channel_id deletes the row, set_llm_enabled upserts
\* the flag
Written(kind) ==
    IF kind = "modlog" THEN {<<c>> : c \in ChannelIds} \cup {<<>>}
    ELSE {<<TRUE>>, <<FALSE>>}

\* the values a read can return
Values(kind) ==
    IF kind = "modlog" THEN {<<c>> : c \in ChannelIds} \cup {<<>>}
    ELSE BOOLEAN

\* the loader closures: SELECT modlog_channel_id ... fetch_optional().flatten(),
\* SELECT llm_enabled ... enabled.unwrap_or(true)
Load(kind, row) ==
    IF kind = "modlog" THEN row
    ELSE IF row = <<>> THEN TRUE ELSE row[1]

\* serde_json::to_vec(value): the payload kept under the key
ToJson(kind, value) ==
    IF kind = "modlog"
    THEN IF value = <<>> THEN "null" ELSE IF value[1] = 100 THEN "100" ELSE "200"
    ELSE IF value THEN "true" ELSE "false"

\* serde_json::from_slice(&bytes)
FromJson(kind, payload) == CHOOSE v \in Values(kind) : ToJson(kind, v) = payload

\* a cache command or a loader fails or not, failures within the run's budget
CacheOutcome(ok) ==
    IF ok THEN faults' = faults ELSE faults > 0 /\ faults' = faults - 1

\* a cached read or a config write is called: within the run's budget
ConfigCall ==
    /\ calls > 0
    /\ calls' = calls - 1

\* get_or_load_json up to the end of self.get_json(key).await: a hit returns
\* the cached value, a miss or a failed GET (only logged) goes on to the loader;
\* the read remembers the value of the last write if that write has returned
ReadGet(r, ok) ==
    /\ procs[r].pc = "idle"
    /\ ConfigCall
    /\ CacheOutcome(ok)
    /\ procs' = [procs EXCEPT ![r] =
                   IF ok /\ cache_entry # <<>>
                   THEN [IdleProc EXCEPT !.expect = last_write,
                                         !.result = <<FromJson(config_kind, cache_entry[1])>>]
                   ELSE [IdleProc EXCEPT !.pc = "load", !.expect = last_write]]
    /\ UNCHANGED <<now, ticks, ledger, calls_in_flight, warnings, escalation_config,
                   moderation_cases, member_timeouts, sent, h, others, evaluated, ret,
                   warn_numbers, recording, config_kind, config_row, cache_entry,
                   last_write, upkeep>>

\* let loaded = loader().await?  -- an Err of the loader is the read's Err
ReadLoad(r, ok) ==
    /\ procs[r].pc = "load"
    /\ CacheOutcome(ok)
    /\ procs' = [procs EXCEPT ![r] =
                   IF ok
                   THEN [procs[r] EXCEPT !.pc = "set",
                                         !.loaded = <<Load(config_kind, config_row)>>]
                   ELSE [procs[r] EXCEPT !.pc = "idle", !.error = TRUE]]
    /\ UNCHANGED <<now, ticks, ledger, calls_in_flight, calls, warnings, escalation_config,
                   moderation_cases, member_timeouts, sent, h, others, evaluated,
                   ret, warn_numbers, recording, config_kind, config_row, cache_entry,
                   last_write, upkeep>>

\* (mutant) a failed set_json is the read's Err
OnCacheSetErr_Return == "return"

\* if let Err(e) = self.set_json(key, &loaded, ttl).await { warn!(...) }
OnCacheSetErr == "log"

\* self.set_json(key, &loaded, ttl).await, a failure only logged; Ok(loaded)
ReadSet(r, ok) ==
    /\ procs[r].pc = "set"
    /\ CacheOutcome(ok)
    /\ cache_entry' = IF ok THEN <<ToJson(config_kind, procs[r].loaded[1])>> ELSE cache_entry
    /\ procs' = [procs EXCEPT ![r] =
                   IF ~ok /\ OnCacheSetErr = "return"
                   THEN [procs[r] EXCEPT !.pc = "idle", !.error = TRUE]
                   ELSE [procs[r] EXCEPT !.pc = "idle", !.result = procs[r].loaded]]
    /\ UNCHANGED <<now, ticks, ledger, calls_in_flight, calls, warnings, escalation_config,
                   moderation_cases, member_timeouts, sent, h, others, evaluated, ret,
                   warn_numbers, recording, config_kind, config_row, last_write, upkeep>>

\* a config write up to the end of its statement on the database: the reads in
\* progress overlap it
WriteStore(w, row) ==
    /\ procs[w].pc = "idle"
    /\ ConfigCall
    /\ config_row' = row
    /\ last_write' = <<>>
    /\ procs' = [p \in DOMAIN procs |->
                   IF p = w THEN [IdleProc EXCEPT !.pc = "invalidate", !.loaded = <<row>>]
                   ELSE IF procs[p].pc # "idle" THEN [procs[p] EXCEPT !.expect = <<>>]
                   ELSE procs[p]]
    /\ UNCHANGED <<now, ticks, ledger, calls_in_flight, warnings, escalation_config,
                   moderation_cases, member_timeouts, sent, h, faults, others, evaluated,
                   ret, warn_numbers, recording, config_kind, cache_entry, upkeep>>

\* invalidate_modlog_config(db.cache(), guild_id).await?; Ok(())
InvalidateResult(ok) == IF ok THEN "ok" ELSE "err"

\* the rest of a config write: cache.del(key), and the return
WriteInvalidate(w, ok) ==
    /\ procs[w].pc = "invalidate"
    /\ CacheOutcome(ok)
    /\ cache_entry' = IF ok THEN <<>> ELSE cache_entry
    /\ procs' = [procs EXCEPT ![w].pc = "idle", ![w].result = <<InvalidateResult(ok)>>]
    /\ last_write' = IF InvalidateResult(ok) = "ok"
                     THEN <<Load(config_kind, procs[w].loaded[1])>>
                     ELSE <<>>
    /\ UNCHANGED <<now, ticks, ledger, calls_in_flight, calls, warnings, escalation_config,
                   moderation_cases, member_timeouts, sent, h, others, evaluated, ret,
                   warn_numbers, recording, config_kind, config_row, upkeep>>

\* the entry's time to live runs out (SETEX key ttl)
Expire ==
    /\ cache_entry # <<>>
    /\ cache_entry' = <<>>
    /\ UNCHANGED <<now, ticks, ledger, calls_in_flight, calls, warnings, escalation_config,
                   moderation_cases, member_timeouts, sent, h, faults, others, evaluated,
                   ret, warn_numbers, recording, config_kind, config_row, procs,
                   last_write, upkeep>>

\* one guild, no row, no entry; the Redis backend; at most MaxCacheCalls reads
\* and writes and MaxCacheFaults failing cache commands
InitCache ==
    /\ now = 0
    /\ ticks = 0
    /\ mod_cases = <<>>
    /\ mod_case_events = <<>>
    /\ txs = EmptyBag
    /\ advisory_lock = {}
    /\ calls = MaxCacheCalls
    /\ warnings = <<>>
    /\ escalation_config = [g \in Guilds |-> <<>>]
    /\ moderation_cases = [exists |-> FALSE, rows |-> <<>>]
    /\ member_timeouts = [m \in Guilds \X Users |-> 0]
    /\ sent = 0
    /\ h = IdleHandler
    /\ faults = MaxCacheFaults
    /\ others = 0
    /\ evaluated = <<>>
    /\ ret = NoCall
    /\ warn_numbers = [m \in Guilds \X Users |-> <<>>]
    /\ recording = {}
    /\ config_kind \in ConfigKinds
    /\ config_row = <<>>
    /\ cache_entry = <<>>
    /\ procs = [p \in Readers \cup Writers |-> IdleProc]
    /\ last_write = <<>>
    /\ NoUpkeep

NextCache ==
    \/ \E r \in Readers, ok \in BOOLEAN : ReadGet(r, ok)
    \/ \E r \in Readers, ok \in BOOLEAN : ReadLoad(r, ok)
    \/ \E r \in Readers, ok \in BOOLEAN : ReadSet(r, ok)
    \/ \E w \in Writers, row \in Written(config_kind) : WriteStore(w, row)
    \/ \E w \in Writers, ok \in BOOLEAN : WriteInvalidate(w, ok)
    \/ Expire

SpecCache == InitCache /\ [][NextCache]_vars

\* ------------------------------------------------------- the tier table
\* check_and_escalate: let timeout_secs = escalation_timeout_seconds(timeout_count),
\* timeout_count a COUNT(*), hence >= 0; the last two evaluations are kept
Evaluate(timeout_count) ==
    /\ evaluated' = <<[previous_timeout_count |-> timeout_count,
                       timeout_seconds |-> escalation_timeout_seconds(timeout_count)]>>
                     \o SubSeq(evaluated, 1, IF evaluated = <<>> THEN 0 ELSE 1)
    /\ UNCHANGED <<now, ticks, ledger, calls_in_flight, calls, warnings, escalation_config,
                   moderation_cases, member_timeouts, sent, h, faults, others, ret, warn_numbers, recording, config_cache, upkeep>>

InitTier == LedgerInit(0, 0, 0)

NextTier == \E timeout_count \in 0..MaxTimeoutCount : Evaluate(timeout_count)

SpecTier == InitTier /\ [][NextTier]_vars

\* ------------------------------------ case edits, step by step
\* an update_case_reason or add_case_note call that has converted its
\* arguments and read the clock, and now awaits db.pool().begin()
NewEdit(id, op, l, actor, text, at) ==
    [id |-> id, op |-> op, label |-> l, actor |-> actor, text |-> text, now |-> at,
     pc |-> "acquiring", case_id |-> 0, old_reason |-> <<>>]

\* (mutant) FOR UPDATE is missing: the SELECT waits for nothing
RowLockFree_NoLock(case_id) == TRUE

\* SELECT ... FOR UPDATE returns only when no other transaction holds a lock
\* on the row
RowLockFree(case_id) == \A e \in edits : ~(e.pc = "locked" /\ e.case_id = case_id)

\* the locals of an edit after its SELECT ... FOR UPDATE found row
AfterSelect(e, row) ==
    [e EXCEPT !.pc = "locked", !.case_id = row.id, !.old_reason = row.reason]

\* one edit moves from record e to record e2
EditStep(e, e2) == edits' = (edits \ {e}) \cup {e2}

\* what an edit returns
EditReturn(e, ok, rows) ==
    [NoCall EXCEPT !.op = e.op, !.label = e.label, !.text = e.text, !.ok = ok,
                   !.rows = rows]

\* (mutant) the edit bumps updated_at of every case
CommitEdit_TouchesAll(e) ==
    LET row == mod_cases[CHOOSE i \in 1..Len(mod_cases) : mod_cases[i].id = e.case_id]
        Updated(r) == [r EXCEPT !.reason = e.text, !.updated_at = e.now]
    IN [cases |-> [i \in 1..Len(mod_cases) |->
                      IF mod_cases[i].id = e.case_id /\ e.op = "update_case_reason"
                      THEN Updated(mod_cases[i])
                      ELSE [mod_cases[i] EXCEPT !.updated_at = e.now]],
        events |-> Append(mod_case_events,
                          IF e.op = "update_case_reason"
                          THEN ReasonUpdatedEvent(NextId(mod_case_events, "event_row"),
                                                  [row EXCEPT !.reason = e.old_reason],
                                                  e.actor, e.text, e.now)
                          ELSE NoteAddedEvent(NextId(mod_case_events, "event_row"), row,
                                              e.actor, e.text[1], e.now)),
        value |-> <<>>]

\* (mutant) the event takes the place of the case's last event
CommitEdit_Overwrites(e) ==
    LET row == mod_cases[CHOOSE i \in 1..Len(mod_cases) : mod_cases[i].id = e.case_id]
        Touched(r) == [r EXCEPT !.updated_at = e.now]
    IN [cases |-> WithRow(mod_cases, e.case_id, Touched),
        events |-> [mod_case_events EXCEPT ![Len(mod_case_events)] =
                       NoteAddedEvent(@.id, row, e.actor, "note", e.now)],
        value |-> <<>>]

\* The statements of an edit after its SELECT, and its commit.  The
\* transaction holds the row lock from the SELECT on, so what it writes is
\* seen by nobody before the commit: UPDATE, INSERT and commit are one step.
\* update_case_reason: UPDATE mod_cases SET reason, updated_at ... RETURNING,
\*   INSERT 'reason_updated' with the old_reason the SELECT read;
\* add_case_note: INSERT 'note_added', UPDATE mod_cases SET updated_at.
CommitEdit(e) ==
    LET row == mod_cases[CHOOSE i \in 1..Len(mod_cases) : mod_cases[i].id = e.case_id]
        id == NextId(mod_case_events, "event_row")
        Updated(r) == [r EXCEPT !.reason = e.text, !.updated_at = e.now]
        Touched(r) == [r EXCEPT !.updated_at = e.now]
    IN IF e.op = "update_case_reason"
       THEN [cases |-> WithRow(mod_cases, e.case_id, Updated),
             events |-> Append(mod_case_events,
                               ReasonUpdatedEvent(id, [row EXCEPT !.reason = e.old_reason],
                                                  e.actor, e.text, e.now)),
             value |-> <<Updated(row)>>]
       ELSE [cases |-> WithRow(mod_cases, e.case_id, Touched),
             events |-> Append(mod_case_events,
                               NoteAddedEvent(id, row, e.actor, e.text[1], e.now)),
             value |-> <<>>]

\* update_case_reason or add_case_note is called
EditCall(op, l, text) ==
    /\ StoreCall
    /\ edits' = edits \cup {NewEdit(calls, op, l, Actors.moderator, text, now)}
    /\ UNCHANGED <<now, ticks, ledger, calls_in_flight, warnings, escalation_config,
                   moderation_cases, member_timeouts, sent, h, faults, others, evaluated,
                   ret, warn_numbers, recording, config_cache, schema, llm_rate_limit, checks>>

\* let mut tx = db.pool().begin().await?  -- needs a free pooled connection
EditBegin(e) ==
    /\ e.pc = "acquiring"
    /\ ConnectionsInUse < MaxConnections
    /\ EditStep(e, [e EXCEPT !.pc = "begun"])
    /\ UNCHANGED <<now, ticks, ledger, calls_in_flight, calls, warnings, escalation_config,
                   moderation_cases, member_timeouts, sent, h, faults, others, evaluated,
                   ret, warn_numbers, recording, config_cache, schema, llm_rate_limit, checks>>

\* SELECT id, reason FROM mod_cases WHERE guild_id = $1 AND case_code = $2
\*   AND action_case_number = $3 FOR UPDATE
\* No row: tx.rollback() and Ok(None) / Ok(false).  A row: the statement
\* blocks while another transaction holds the row's lock, then reads the row
\* as last committed (READ COMMITTED) and holds the lock itself.
EditSelect(e) ==
    /\ e.pc = "begun"
    /\ LET existing == FindCase(mod_cases, e.label[1], e.label[2], e.label[3])
       IN IF existing = <<>>
          THEN /\ edits' = edits \ {e}
               /\ ret' = EditReturn(e, FALSE, <<>>)
          ELSE /\ RowLockFree(existing[1].id)
               /\ EditStep(e, AfterSelect(e, existing[1]))
               /\ UNCHANGED ret
    /\ UNCHANGED <<now, ticks, ledger, calls_in_flight, calls, warnings, escalation_config,
                   moderation_cases, member_timeouts, sent, h, faults, others, evaluated,
                   warn_numbers, recording, config_cache, schema, llm_rate_limit, checks>>

\* the writes and tx.commit(): the row and the event become visible together,
\* the row lock is released
EditCommit(e) ==
    /\ e.pc = "locked"
    /\ LET out == CommitEdit(e)
       IN /\ mod_cases' = out.cases
          /\ mod_case_events' = out.events
          /\ ret' = EditReturn(e, TRUE, out.value)
    /\ edits' = edits \ {e}
    /\ UNCHANGED <<now, ticks, calls_in_flight, calls, warnings, escalation_config,
                   moderation_cases, member_timeouts, sent, h, faults, others, evaluated,
                   warn_numbers, recording, config_cache, schema, llm_rate_limit, checks>>

\* any `?` returning Err, or the future being dropped: the Transaction is
\* dropped, its writes are rolled back and its row lock is released
EditRollback(e) ==
    /\ edits' = edits \ {e}
    /\ ret' = [EditReturn(e, FALSE, <<>>) EXCEPT !.args = <<"Err">>]
    /\ UNCHANGED <<now, ticks, ledger, calls_in_flight, calls, warnings, escalation_config,
                   moderation_cases, member_timeouts, sent, h, faults, others, evaluated,
                   warn_numbers, recording, config_cache, schema, llm_rate_limit, checks>>

\* the steps that a call takes when nothing fails
EditProgress ==
    \/ \E e \in edits : EditBegin(e)
    \/ \E e \in edits : EditSelect(e)
    \/ \E e \in edits : EditCommit(e)

CreateCaseProgress ==
    \/ \E r \in InFlight : Begin(r)
    \/ \E r \in InFlight : Lock(r)
    \/ \E r \in InFlight : ReadCaseNumber(r)
    \/ \E r \in InFlight : ReadActionCaseNumber(r)
    \/ \E r \in InFlight : InsertCase(r)
    \/ \E r \in InFlight : InsertEvent(r)
    \/ \E r \in InFlight : Commit(r)

\* the labels the edits are made with: the first warning of guild 1, and its
\* second, which is there once a second create_case has committed
EditLabels == {<<1, "W", 1>>, <<1, "W", 2>>}

InitEdit == LedgerInit(MaxEditCalls, MaxEditTicks, 0)

NextEdit ==
    \/ Call(1, "warn")
    \/ \E l \in EditLabels, r \in Reasons : EditCall("update_case_reason", l, r)
    \/ \E l \in EditLabels, n \in Notes : EditCall("add_case_note", l, <<n>>)
    \/ CreateCaseProgress
    \/ EditProgress
    \/ \E r \in InFlight : Rollback(r)
    \/ \E e \in edits : EditRollback(e)
    \/ Tick

SpecEdit == InitEdit /\ [][NextEdit]_vars

\* The same runs under fair scheduling.  The runtime polls every task that
\* can go on, the pool hands a freed connection to a waiting begin() and the
\* database grants a released lock to a waiting statement: as long as some
\* call can take its next step, some call does.  Nothing obliges a call to
\* fail, and nothing obliges a caller to make another call.
SpecLive ==
    /\ InitEdit
    /\ [][NextEdit]_vars
    /\ WF_vars(CreateCaseProgress)
    /\ WF_vars(EditProgress)

\* ------------------------------------------- labels, codes and rate limits
\* Strings are sequences of one-character strings.
LowerLetters == <<"a", "t", "u", "w">>
UpperLetters == <<"A", "T", "U", "W">>
DigitChars == <<"0", "1", "2", "3", "4", "5", "6", "7", "8", "9">>

\* char::is_ascii_alphabetic
is_ascii_alphabetic(ch) ==
    \E i \in 1..Len(LowerLetters) : ch = LowerLetters[i] \/ ch = UpperLetters[i]

\* char::is_ascii_digit
is_ascii_digit(ch) == \E i \in 1..Len(DigitChars) : ch = DigitChars[i]

\* char::to_ascii_uppercase
to_ascii_uppercase_char(ch) ==
    IF \E i \in 1..Len(LowerLetters) : ch = LowerLetters[i]
    THEN UpperLetters[CHOOSE i \in 1..Len(LowerLetters) : ch = LowerLetters[i]]
    ELSE ch

\* str::to_ascii_uppercase
to_ascii_uppercase(s) == [i \in 1..Len(s) |-> to_ascii_uppercase_char(s[i])]

\* the Display of a u64: its decimal digits, no sign, no leading zero
RECURSIVE to_string(_)
to_string(n) ==
    IF n < 10 THEN <<DigitChars[n + 1]>>
    ELSE to_string(n \div 10) \o <<DigitChars[(n % 10) + 1]>>

\* the value of a digit
DigitValue(ch) == (CHOOSE i \in 1..Len(DigitChars) : ch = DigitChars[i]) - 1

\* the value of a string of digits (the strings of the runs are far from
\* overflowing a u64)
RECURSIVE DecimalValue(_)
DecimalValue(s) ==
    IF s = <<>> THEN 0
    ELSE 10 * DecimalValue(SubSeq(s, 1, Len(s) - 1)) + DigitValue(s[Len(s)])

\* str::parse::<u64>: an optional "+", then one or more digits
parse_u64(s) ==
    LET digits == IF s # <<>> /\ s[1] = "+" THEN Tail(s) ELSE s
    IN IF digits # <<>> /\ \A i \in 1..Len(digits) : is_ascii_digit(digits[i])
       THEN [ok |-> TRUE, value |-> DecimalValue(digits)]
       ELSE [ok |-> FALSE, value |-> 0]

RECURSIVE trim_start(_)
trim_start(s) ==
    IF s # <<>> /\ s[1] = " " THEN trim_start(Tail(s)) ELSE s

RECURSIVE trim_end(_)
trim_end(s) ==
    IF s # <<>> /\ s[Len(s)] = " " THEN trim_end(SubSeq(s, 1, Len(s) - 1)) ELSE s

\* (mutant) only the leading whitespace is removed
trim_StartOnly(s) == trim_start(s)

\* str::trim
trim(s) == trim_end(trim_start(s))

\* pub fn format_case_label(case_code: &str, action_case_number: u64) -> String
format_case_label(case_code, action_case_number) ==
    to_ascii_uppercase(case_code) \o to_string(action_case_number)

\* Option<(String, u64)>::None
NoLabel == [some |-> FALSE, code |-> <<>>, number |-> 0]

\* the end of the leading run of ASCII letters of input
RECURSIVE SplitIdx(_)
SplitIdx(input) ==
    IF input # <<>> /\ is_ascii_alphabetic(input[1])
    THEN 1 + SplitIdx(Tail(input))
    ELSE 0

\* pub fn parse_case_label(raw: &str) -> Option<(String, u64)>
parse_case_label(raw) ==
    LET input == trim(raw)
        split_idx == SplitIdx(input)
        code == SubSeq(input, 1, split_idx)
        number == parse_u64(SubSeq(input, split_idx + 1, Len(input)))
    IN IF input = <<>> THEN NoLabel
       ELSE IF split_idx = 0 \/ split_idx >= Len(input) THEN NoLabel
       ELSE IF ~number.ok \/ ~(number.value > 0) THEN NoLabel
       ELSE [some |-> TRUE, code |-> to_ascii_uppercase(code), number |-> number.value]

\* Duration::from_secs
from_secs(secs) == [secs |-> secs, subsec_nanos |-> 0]

\* (mutant) the window is clamped from above only
normalize_llm_rate_limit_NoFloor(window, max_hits) ==
    LET as_secs == window.secs
        window_seconds == IF as_secs > 3600 THEN 3600 ELSE as_secs
        normalized_hits == IF max_hits > 1 THEN max_hits ELSE 1
    IN [window |-> from_secs(window_seconds), max_hits |-> normalized_hits]

\* fn normalize_llm_rate_limit(window: Duration, max_hits: u64) -> (Duration, u64)
normalize_llm_rate_limit(window, max_hits) ==
    LET as_secs == window.secs
        window_seconds == IF as_secs < 1 THEN 1
                          ELSE IF as_secs > 3600 THEN 3600 ELSE as_secs
        normalized_hits == IF max_hits > 1 THEN max_hits ELSE 1
    IN [window |-> from_secs(window_seconds), max_hits |-> normalized_hits]

\* the strings of at most n characters over alphabet A
RECURSIVE Strings(_, _)
Strings(A, n) ==
    IF n = 0 THEN {<<>>}
    ELSE LET shorter == Strings(A, n - 1)
         IN shorter \cup {<<ch>> \o s : ch \in A, s \in {t \in shorter : Len(t) = n - 1}}

\* the actions passed to create_case by the commands and the word filter,
\* and three names no caller passes
KnownActions ==
    {"warn", "ban", "kick", "timeout", "unban", "untimeout", "unwarn", "unwarn_all",
     "purge", "terminate", "auto_timeout", "word_filter_timeout",
     "word_filter_delete", "word_filter_log", "word_filter_warn"}
OtherWordFilterActions == {"word_filter_kick", "word_filter_"}
OtherActions == {"note", "WARN", ""}
ActionInputs == KnownActions \cup OtherWordFilterActions \cup OtherActions

\* the inputs of the label functions
LabelAlphabet == {"w", "0", "1", " "}
LabelCodes == Strings({"w", "A"}, MaxCodeLen) \ {<<>>}
LabelNumbers == {1, 12, 105}
Paddings == {<<>>, <<" ">>, <<" ", " ">>}
SignedLabels == {<<"w", "+", "1">>, <<"w", "+">>, <<"+", "1">>, <<"w", "-", "1">>}
RawLabels ==
    Strings(LabelAlphabet, MaxLabelLen)
    \cup SignedLabels
    \cup {l \o code \o to_string(n) \o r :
            l \in Paddings, r \in Paddings, code \in LabelCodes, n \in LabelNumbers}

\* the inputs of the rate-limit configuration
WindowInputs ==
    [secs : {0, 1, 10, 3599, 3600, 3601, 7200}, subsec_nanos : {0, 500000000}]
MaxHitsInputs == {0, 1, 2, 5}

\* one more call is made
UtilCall == calls > 0 /\ calls' = calls - 1

\* action_code(action) is evaluated
ActionCode(action) ==
    /\ UtilCall
    /\ ret' = [NoCall EXCEPT !.op = "action_code", !.text = <<action, action_code(action)>>]
    /\ UNCHANGED <<now, ticks, ledger, calls_in_flight, warnings, escalation_config,
                   moderation_cases, member_timeouts, sent, h, faults, others, evaluated,
                   warn_numbers, recording, config_cache, upkeep>>

\* format_case_label(case_code, n) is evaluated
FormatCaseLabel(case_code, n) ==
    /\ UtilCall
    /\ ret' = [NoCall EXCEPT !.op = "format_case_label", !.text = case_code, !.count = n,
                             !.rows = format_case_label(case_code, n)]
    /\ UNCHANGED <<now, ticks, ledger, calls_in_flight, warnings, escalation_config,
                   moderation_cases, member_timeouts, sent, h, faults, others, evaluated,
                   warn_numbers, recording, config_cache, upkeep>>

\* parse_case_label(raw) is evaluated
ParseCaseLabel(raw) ==
    LET parsed == parse_case_label(raw)
    IN /\ UtilCall
       /\ ret' = [NoCall EXCEPT !.op = "parse_case_label", !.rows = raw,
                                !.ok = parsed.some, !.text = parsed.code,
                                !.count = parsed.number]
       /\ UNCHANGED <<now, ticks, ledger, calls_in_flight, warnings,
                      escalation_config, moderation_cases, member_timeouts, sent, h,
                      faults, others, evaluated, warn_numbers, recording, config_cache,
                      upkeep>>

\* pub fn configure_llm_rate_limit(&mut self, window: Duration, max_hits: u64)
ConfigureLlmRateLimit(window, max_hits) ==
    /\ UtilCall
    /\ llm_rate_limit' = normalize_llm_rate_limit(window, max_hits)
    /\ ret' = [NoCall EXCEPT !.op = "configure_llm_rate_limit",
                             !.args = <<window.secs, window.subsec_nanos, max_hits>>]
    /\ UNCHANGED <<now, ticks, ledger, calls_in_flight, warnings, escalation_config,
                   moderation_cases, member_timeouts, sent, h, faults, others, evaluated,
                   warn_numbers, recording, config_cache, edits, schema, checks>>

InitUtil == LedgerInit(MaxUtilCalls, 0, 0)

NextUtil ==
    \/ \E action \in ActionInputs : ActionCode(action)
    \/ \E case_code \in LabelCodes, n \in LabelNumbers : FormatCaseLabel(case_code, n)
    \/ \E raw \in RawLabels : ParseCaseLabel(raw)
    \/ \E window \in WindowInputs, max_hits \in MaxHitsInputs :
          ConfigureLlmRateLimit(window, max_hits)

SpecUtil == InitUtil /\ [][NextUtil]_vars

\* ---------------------------------------------- a ledger with a history
\* a store that holds the cases written so far and nothing else, with
\* nothing in progress
LedgerInitFrom(cases, sch, c) ==
    /\ now = 1
    /\ ticks = 0
    /\ mod_cases = cases
    /\ mod_case_events = <<>>
    /\ txs = EmptyBag
    /\ advisory_lock = {}
    /\ calls = c
    /\ warnings = <<>>
    /\ escalation_config = [g \in Guilds |-> <<>>]
    /\ moderation_cases = [exists |-> FALSE, rows |-> <<>>]
    /\ member_timeouts = [m \in Guilds \X Users |-> 0]
    /\ sent = 0
    /\ h = IdleHandler
    /\ faults = 0
    /\ others = 0
    /\ evaluated = <<>>
    /\ ret = NoCall
    /\ warn_numbers = [m \in Guilds \X Users |-> <<>>]
    /\ recording = {}
    /\ NoConfigCache
    /\ edits = {}
    /\ schema = sch
    /\ llm_rate_limit = [window |-> from_secs(DefaultLlmMentionRateLimitWindow),
                         max_hits |-> DefaultLlmMentionRateLimitMaxHits]
    /\ checks = {}

\* ------------------------------------------------ ensure_case_schema_compat
\* the CASE expression of the back-fill (it has no arm for auto_timeout and
\* none for the word-filter actions)
resolved_code(action) ==
    CASE action = "warn" -> "W"
      [] action = "ban" -> "B"
      [] action = "kick" -> "K"
      [] action = "timeout" -> "T"
      [] action = "unban" -> "UB"
      [] action = "untimeout" -> "UT"
      [] action = "unwarn" -> "UW"
      [] action = "unwarn_all" -> "UWA"
      [] action = "purge" -> "P"
      [] action = "terminate" -> "TR"
      [] OTHER -> "M"

\* (mutant) the window is partitioned by the stored case_code
PartitionKey_Stored(row) == <<row.guild_id, row.case_code>>

\* PARTITION BY guild_id, CASE ... END
PartitionKey(row) == <<row.guild_id, resolved_code(row.action)>>

\* ROW_NUMBER() OVER (PARTITION BY ... ORDER BY created_at ASC, id ASC)
resolved_number(cases, row) ==
    1 + Cardinality({i \in 1..Len(cases) :
                        /\ PartitionKey(cases[i]) = PartitionKey(row)
                        /\ \/ cases[i].created_at < row.created_at
                           \/ /\ cases[i].created_at = row.created_at
                              /\ cases[i].id < row.id})

\* WHERE mc.id = ranked.id AND (mc.action_case_number = 0 OR mc.case_code = 'M')
BackfillMatches(row) == row.action_case_number = 0 \/ row.case_code = "M"

\* the key of a row in mod_cases_guild_case_code_number_idx
IndexKey(row) == <<row.guild_id, row.case_code, row.action_case_number>>

\* no two rows have the same key
UniqueKeys(cases) ==
    \A i, j \in 1..Len(cases) : IndexKey(cases[i]) = IndexKey(cases[j]) => i = j

\* The UPDATE, row by row.  ranked is computed from the table as it is when
\* the statement starts; the rows are updated in the order the executor
\* visits them, and the unique index is checked as each new row version is
\* written, against the other rows as they are at that moment.  The
\* statement ends at the first violation.
RECURSIVE UpdateRows(_, _, _)
UpdateRows(ranked, cases, order) ==
    IF order = <<>> THEN [ok |-> TRUE, cases |-> cases]
    ELSE LET i == Head(order)
             row == [cases[i] EXCEPT !.case_code = resolved_code(ranked[i].action),
                                     !.action_case_number = resolved_number(ranked, ranked[i])]
             clash == \E j \in 1..Len(cases) : j # i /\ IndexKey(cases[j]) = IndexKey(row)
         IN IF ~BackfillMatches(ranked[i]) THEN UpdateRows(ranked, cases, Tail(order))
            ELSE IF clash THEN [ok |-> FALSE, cases |-> ranked]
            ELSE UpdateRows(ranked, [cases EXCEPT ![i] = row], Tail(order))

\* the order in which the executor visits the rows: it is fixed by the plan
\* and the layout of the table, which the function does not change
ScanOrder(cases, scan) ==
    IF scan = "forward" THEN [i \in 1..Len(cases) |-> i]
    ELSE [i \in 1..Len(cases) |-> Len(cases) + 1 - i]

\* pub async fn ensure_case_schema_compat(db: &Database) -> anyhow::Result<()>
\* Each statement commits on its own; an Err returns at once.  The two ADD
\* COLUMN IF NOT EXISTS leave a table whose rows hold either the defaults
\* ('M', 0) or what was stored before; guild_mod_config is no part of this state.
ensure_case_schema_compat(cases, sch) ==
    LET indexed == sch.index \/ UniqueKeys(cases)
        updated == UpdateRows(cases, cases, ScanOrder(cases, sch.scan))
    IN IF ~indexed
       THEN [cases |-> cases, index |-> FALSE, ok |-> FALSE]
       ELSE [cases |-> updated.cases, index |-> TRUE, ok |-> updated.ok]

\* the rows a table may hold before the function runs
HistoricalActions == {"warn", "auto_timeout"}
HistoricalNumbering == {"default", "M1", "own1"}
HistoricalShapes ==
    [guild_id : Guilds, action : HistoricalActions, created_at : {0, 1},
     numbering : HistoricalNumbering]

HistoricalRow(id, shape) ==
    CaseRow(id,
            NewCase(shape.guild_id, 1, Actors.moderator, shape.action, <<"r">>,
                    "active", Null),
            IF shape.numbering \in {"default", "M1"} THEN "M" ELSE action_code(shape.action),
            id,
            IF shape.numbering = "default" THEN 0 ELSE 1,
            shape.created_at)

\* ensure_case_schema_compat runs
EnsureCaseSchemaCompat ==
    LET done == ensure_case_schema_compat(mod_cases, schema)
    IN /\ schema.runs < MaxCompatRuns
       /\ mod_cases' = done.cases
       /\ schema' = [schema EXCEPT !.index = done.index, !.runs = @ + 1,
                                   !.result = IF done.ok THEN "ok" ELSE "err",
                                   !.changed = @ \/ done.cases # mod_cases]
       /\ UNCHANGED <<now, ticks, mod_case_events, calls_in_flight, calls, warnings,
                      escalation_config, moderation_cases, member_timeouts, sent, h,
                      faults, others, evaluated, ret, warn_numbers, recording,
                      config_cache, edits, llm_rate_limit, checks>>

\* any table of at most MaxHistoricalRows historical rows, with the index
\* where the rows allow one, or without it
InitCompat ==
    \E n \in 0..MaxHistoricalRows :
       \E shapes \in [1..n -> HistoricalShapes], index \in BOOLEAN,
          scan \in {"forward", "backward"} :
            /\ index => UniqueKeys([i \in 1..n |-> HistoricalRow(i, shapes[i])])
            /\ LedgerInitFrom([i \in 1..n |-> HistoricalRow(i, shapes[i])],
                              [index |-> index, runs |-> 0, result |-> "",
                               changed |-> FALSE, scan |-> scan], 0)

NextCompat == EnsureCaseSchemaCompat

SpecCompat == InitCompat /\ [][NextCompat]_vars

\* ----------------------------------------------------------- list_recent_cases
\* LOWER(text), on the action names of the runs
Lower(text) ==
    CASE text = "WARN" -> "warn"
      [] text = "Warn" -> "warn"
      [] text = "AUTO_TIMEOUT" -> "auto_timeout"
      [] text = "BAN" -> "ban"
      [] OTHER -> text

\* (mutant) the limit is clamped from above only
ClampLimit_NoFloor(limit) == IF limit > MaxLimit THEN MaxLimit ELSE limit

\* filters.limit.clamp(1, 200)
ClampLimit(limit) ==
    IF limit < 1 THEN 1 ELSE IF limit > MaxLimit THEN MaxLimit ELSE limit

\* the columns selected into a CaseSummary
CaseSummary(row) ==
    [case_number |-> row.case_number, case_code |-> row.case_code,
     action_case_number |-> row.action_case_number,
     target_user_id |-> row.target_user_id,
     moderator_user_id |-> row.moderator_user_id, action |-> row.action,
     reason |-> row.reason, duration_seconds |-> row.duration_seconds,
     created_at |-> row.created_at]

\* WHERE guild_id = $1 AND ($2 IS NULL OR target_user_id = $2)
\*   AND ($3 IS NULL OR moderator_user_id = $3)
\*   AND ($4 IS NULL OR LOWER(action) = LOWER($4))
ListMatches(row, g, filters) ==
    /\ row.guild_id = g
    /\ filters.target_user_id = Null \/ row.target_user_id = filters.target_user_id
    /\ filters.moderator_user_id = Null
          \/ row.moderator_user_id = filters.moderator_user_id
    /\ filters.action = <<>> \/ Lower(row.action) = Lower(filters.action[1])

\* pub async fn list_recent_cases(db, guild_id, filters) -> Vec<CaseSummary>
\* ORDER BY case_number DESC LIMIT $5: the k-th row returned is the matching
\* row with k - 1 matching rows of greater case_number.  (The rows of one
\* guild have distinct case numbers, so the order is total.)
list_recent_cases(cases, g, filters) ==
    LET limit_i64 == ClampLimit(filters.limit)
        matching == {j \in 1..Len(cases) : ListMatches(cases[j], g, filters)}
        position == [j \in matching |->
                        1 + Cardinality({x \in matching :
                                            cases[x].case_number > cases[j].case_number})]
        returned == IF Cardinality(matching) < limit_i64 THEN Cardinality(matching)
                    ELSE limit_i64
    IN [k \in 1..returned |-> CaseSummary(cases[CHOOSE j \in matching : position[j] = k])]

\* The ledgers the listing runs on, as create_case leaves them: row i has
\* the next case_number of its guild and the next action_case_number of
\* its guild and code.
ListShapes == [guild_id : Guilds, target_user_id : Users, action : LedgerActions]

LedgerOf(shapes) ==
    [i \in 1..Len(shapes) |->
        CaseRow(i,
                NewCase(shapes[i].guild_id, shapes[i].target_user_id,
                        IF shapes[i].action = "auto_timeout" THEN Actors.bot
                        ELSE Actors.moderator,
                        shapes[i].action, <<"r">>, "active", Null),
                action_code(shapes[i].action),
                Cardinality({j \in 1..i : shapes[j].guild_id = shapes[i].guild_id}),
                Cardinality({j \in 1..i : /\ shapes[j].guild_id = shapes[i].guild_id
                                          /\ shapes[j].action = shapes[i].action}),
                0)]

\* a guild with more cases than the greatest limit: warnings of the two users
\* in turn
LongLedger ==
    LedgerOf([i \in 1..MaxLimit + 1 |->
                 [guild_id |-> 1, target_user_id |-> 1 + (i % 2), action |-> "warn"]])

ListFilters ==
    [target_user_id : {Null, 1}, moderator_user_id : {Null, Actors.moderator},
     action : {<<>>, <<"warn">>, <<"WARN">>, <<"ban">>},
     limit : {0, 1, 2, MaxLimit, MaxLimit + 50}]

\* list_recent_cases is called
ListRecentCases(g, filters) ==
    /\ calls > 0
    /\ calls' = calls - 1
    /\ ret' = [NoCall EXCEPT !.op = "list_recent_cases",
                             !.args = <<g, filters.target_user_id, filters.moderator_user_id,
                                        filters.limit>>,
                             !.text = filters.action,
                             !.rows = list_recent_cases(mod_cases, g, filters)]
    /\ UNCHANGED <<now, ticks, ledger, calls_in_flight, warnings, escalation_config,
                   moderation_cases, member_timeouts, sent, h, faults, others, evaluated,
                   warn_numbers, recording, config_cache, upkeep>>

\* a ledger of at most MaxListRows cases, or the long one
InitList ==
    \/ \E n \in 0..MaxListRows :
          \E shapes \in [1..n -> ListShapes] :
              LedgerInitFrom(LedgerOf(shapes),
                             [index |-> TRUE, runs |-> 0, result |-> "",
                              changed |-> FALSE, scan |-> "forward"], MaxListCalls)
    \/ LedgerInitFrom(LongLedger,
                      [index |-> TRUE, runs |-> 0, result |-> "", changed |-> FALSE,
                       scan |-> "forward"], MaxListCalls)

NextList == \E g \in Guilds, filters \in ListFilters : ListRecentCases(g, filters)

SpecList == InitList /\ [][NextList]_vars

\* ------------------------------- warn_and_log, messages handled concurrently
\* the state that no step of the word-filter handler writes
outside_checks == <<now, ticks, calls_in_flight, escalation_config, moderation_cases, h,
                    faults, others, evaluated, ret, warn_numbers, recording,
                    config_cache, edits, schema, llm_rate_limit>>

\* the handler of one filtered message of member (g, u), about to call
\* check_and_escalate
NewCheck(id, g, u) ==
    [id |-> id, guild |-> g, user |-> u, pc |-> "config", config |-> <<>>,
     warn_count |-> 0, timeout_count |-> 0, timeout_secs |-> 0, result |-> <<>>,
     case |-> <<>>]

\* one handler moves from record c to record c2
CheckStep(c, c2) == checks' = (checks \ {c}) \cup {c2}

\* check_and_escalate returns None; the handler goes on to its own case
ReturnNone(c) == [c EXCEPT !.pc = "wf_case"]

\* a message matching the word filter under warn_and_log: the message is
\* deleted, the warning recorded and the author told by DM
CheckStart(g, u) ==
    /\ calls > 0
    /\ calls' = calls - 1
    /\ warnings' = record_warning(g, u, Actors.bot, <<"Word filter">>).warnings
    /\ sent' = sent + 1
    /\ checks' = checks \cup {NewCheck(Cardinality(checks) + 1, g, u)}
    /\ UNCHANGED <<outside_checks, ledger, member_timeouts>>

\* 1. let config = match get_escalation_if_enabled(db, guild_id).await
CheckConfig(c) ==
    /\ c.pc = "config"
    /\ LET config == get_escalation_if_enabled(c.guild)
       IN IF config = <<>>
          THEN CheckStep(c, ReturnNone(c))
          ELSE CheckStep(c, [c EXCEPT !.pc = "warn_count", !.config = config])
    /\ UNCHANGED <<outside_checks, ledger, calls, warnings, member_timeouts, sent>>

\* 2. count_warnings_in_window(...).await; below the threshold: return None
CheckWarnCount(c) ==
    /\ c.pc = "warn_count"
    /\ LET warn_count == count_warnings_in_window(c.guild, c.user,
                                                  c.config[1].warn_window_seconds)
       IN IF warn_count < c.config[1].warn_threshold
          THEN CheckStep(c, ReturnNone(c))
          ELSE CheckStep(c, [c EXCEPT !.pc = "timeout_count", !.warn_count = warn_count])
    /\ UNCHANGED <<outside_checks, ledger, calls, warnings, member_timeouts, sent>>

\* 3. count_timeouts_in_window(...).await, and the tier's duration
CheckTimeoutCount(c) ==
    /\ c.pc = "timeout_count"
    /\ LET counted == count_timeouts_in_window(c.guild, c.user,
                                               c.config[1].timeout_window_seconds)
       IN IF ~counted.ok
          THEN CheckStep(c, ReturnNone(c))
          ELSE CheckStep(c, [c EXCEPT !.pc = "edit_member",
                                      !.timeout_count = counted.count,
                                      !.timeout_secs =
                                          escalation_timeout_seconds(counted.count)])
    /\ UNCHANGED <<outside_checks, ledger, calls, warnings, member_timeouts, sent>>

\* 4. guild_id.edit_member(http, target_user.id, edit).await
CheckEditMember(c) ==
    /\ c.pc = "edit_member"
    /\ member_timeouts' = [member_timeouts EXCEPT ![<<c.guild, c.user>>] = now + c.timeout_secs]
    /\ CheckStep(c, [c EXCEPT !.pc = "create_case"])
    /\ UNCHANGED <<outside_checks, ledger, calls, warnings, sent>>

\* tier: Some(timeout_count), the count read at step 3
RecordedTier(c) == c.timeout_count

\* 5. to 7. create_case(db, new_case).await, the modlog message and the DM;
\* Some(EscalationResult { timed_out: true, .. })
CheckCreateCase(c) ==
    /\ c.pc = "create_case"
    /\ LET reason == <<"Auto-escalation", c.warn_count, c.config[1].warn_window_seconds>>
           tx == CreateCaseTx(NewCase(c.guild, c.user, Actors.bot, "auto_timeout", reason,
                                      "completed", c.timeout_secs))
       IN /\ mod_cases' = tx.cases
          /\ mod_case_events' = tx.events
          /\ CheckStep(c, [c EXCEPT !.pc = "wf_case",
                                    !.result = Triggered(c.timeout_secs, RecordedTier(c)),
                                    !.case = <<tx.cases[Len(tx.cases)].id>>])
    /\ sent' = sent + 2
    /\ UNCHANGED <<outside_checks, calls, warnings, member_timeouts>>

\* the handler's own case for the filtered message, and its modlog message
CheckCase(c) ==
    /\ c.pc = "wf_case"
    /\ LET tx == CreateCaseTx(NewCase(c.guild, c.user, Actors.bot, "word_filter_warn",
                                      <<"word">>, "completed", Null))
       IN /\ mod_cases' = tx.cases
          /\ mod_case_events' = tx.events
    /\ sent' = sent + 1
    /\ CheckStep(c, [c EXCEPT !.pc = "done"])
    /\ UNCHANGED <<outside_checks, calls, warnings, member_timeouts>>

\* escalation is enabled with threshold 2 for the guild of Focus; at most
\* MaxCheckCalls filtered messages arrive, and their handlers interleave
InitCheck ==
    /\ now = 0
    /\ ticks = MaxCheckTicks
    /\ mod_cases = <<>>
    /\ mod_case_events = <<>>
    /\ txs = EmptyBag
    /\ advisory_lock = {}
    /\ calls = MaxCheckCalls
    /\ warnings = <<>>
    /\ escalation_config = [g \in Guilds |-> IF g = Focus[1] THEN <<ConfigRow(g, TRUE, 2)>>
                                                            ELSE <<>>]
    /\ moderation_cases \in ModerationCasesChoices
    /\ member_timeouts = [m \in Guilds \X Users |-> 0]
    /\ sent = 0
    /\ h = IdleHandler
    /\ faults = 0
    /\ others = 0
    /\ evaluated = <<>>
    /\ ret = NoCall
    /\ warn_numbers = [m \in Guilds \X Users |-> <<>>]
    /\ recording = {}
    /\ NoConfigCache
    /\ NoUpkeep

NextCheck ==
    \/ \E u \in Users : CheckStart(Focus[1], u)
    \/ \E c \in checks : CheckConfig(c)
    \/ \E c \in checks : CheckWarnCount(c)
    \/ \E c \in checks : CheckTimeoutCount(c)
    \/ \E c \in checks : CheckEditMember(c)
    \/ \E c \in checks : CheckCreateCase(c)
    \/ \E c \in checks : CheckCase(c)
    \/ Tick

SpecCheck == InitCheck /\ [][NextCheck]_vars

\* ------------------------------- the back-fill on a ledger made by create_case
\* the actions of the cases: two the back-fill's CASE knows or not, one of the
\* word filter, and one that action_code maps to the fallback code M
CreatedActions == {"warn", "auto_timeout", "word_filter_warn", "mute"}

\* an empty ledger with the index in place; the cases are created by
\* create_case, and ensure_case_schema_compat runs at any moment
InitBackfill ==
    \E scan \in {"forward", "backward"} :
        LedgerInitFrom(<<>>, [index |-> TRUE, runs |-> 0, result |-> "",
                              changed |-> FALSE, scan |-> scan], MaxBackfillCalls)

NextBackfill ==
    \/ \E g \in Guilds, a \in CreatedActions : CaseCreate(g, a)
    \/ EnsureCaseSchemaCompat

SpecBackfill == InitBackfill /\ [][NextBackfill]_vars

\* ------------------------------------------------------------- claims
CaseCodes == {action_code(a) : a \in LedgerActions}

RowsOf(g, code) ==
    LET Same(r) == r.guild_id = g /\ r.case_code = code
    IN SelectSeq(mod_cases, Same)

GuildRows(g) ==
    LET InGuild(r) == r.guild_id = g
    IN SelectSeq(mod_cases, InGuild)

\* number of calls in flight for guild g at one of the positions P
CallsAt(g, P) ==
    LET S == {r \in InFlight : r.new_case.guild_id = g /\ r.pc \in P}
        RECURSIVE Sum(_)
        Sum(T) == IF T = {} THEN 0
                  ELSE LET r == CHOOSE x \in T : TRUE
                       IN CopiesIn(r, txs) + Sum(T \ {r})
    IN Sum(S)

\* C1: in every state of the store, for every guild and case code, the
\* action_case_number values of the committed cases with that code are
\* exactly 1..N, N the number of such cases: no duplicate, no gap.
C1_ActionNumbersDense ==
    \A g \in Guilds, code \in CaseCodes :
        LET rows == RowsOf(g, code)
        IN {rows[i].action_case_number : i \in 1..Len(rows)} = 1..Len(rows)

\* three cases of one code committed in a guild while a further call for
\* that guild holds a connection
C1_Witness ==
    \E g \in Guilds :
        /\ Len(RowsOf(g, "W")) >= 3
        /\ CallsAt(g, InTx) >= 1

\* C2: within a guild case_number is unique and strictly increasing in
\* commit order, whatever the action types.
C2_CaseNumberIncreasing ==
    \A g \in Guilds :
        LET rows == GuildRows(g)
        IN \A i, j \in 1..Len(rows) : i < j => rows[i].case_number < rows[j].case_number

\* in one guild a case of one code was committed after a case of another code
C2_Witness ==
    \E g \in Guilds :
        LET rows == GuildRows(g)
        IN \E i, j \in 1..Len(rows) :
              /\ i < j
              /\ rows[i].case_code # rows[j].case_code
              /\ rows[j].case_number = rows[i].case_number + 1

\* C3: every visible case row has a 'created' event of its own.
C3_CreatedEventWithCase ==
    \A i \in 1..Len(mod_cases) :
        \E j \in 1..Len(mod_case_events) :
            /\ mod_case_events[j].case_id = mod_cases[i].id
            /\ mod_case_events[j].guild_id = mod_cases[i].guild_id
            /\ mod_case_events[j].event_type = "created"

\* a case is visible while another transaction has written its case row but
\* not yet its event
C3_Witness ==
    /\ Len(mod_cases) >= 1
    /\ \E r \in InFlight : r.pc = "case_inserted"

\* a call that cannot take its next step: no free connection, or the key is held
Blocked(r) ==
    \/ r.pc = "acquiring" /\ ConnectionsInUse >= MaxConnections
    \/ r.pc = "begun" /\ ~LockGranted(LockKey(r.new_case))

\* at most one call per guild is between its lock and its commit
OnePerGuild == \A g \in Guilds : CallsAt(g, InCritical) <= 1

\* C4 as claimed: same-guild calls never interleave numbering and inserts,
\* and a call is never held up by calls of other guilds only: whenever a
\* call is blocked, a call of its own guild is ahead of it.
C4_NeverBlockedByOtherGuild ==
    /\ OnePerGuild
    /\ \A r \in InFlight :
          Blocked(r) => CallsAt(r.new_case.guild_id, InTx) >= 1 + (IF r.pc = "begun" THEN 1 ELSE 0)

\* C4 amended: same-guild calls never interleave numbering and inserts; a
\* call waiting for its lock waits for a call of its own guild that is
\* between lock and commit; calls of other guilds can delay a call only
\* before it has a connection, while all MaxConnections connections are out.
C4_LockIsPerGuild ==
    /\ OnePerGuild
    /\ \A r \in InFlight :
          /\ (r.pc = "begun" /\ Blocked(r)) => CallsAt(r.new_case.guild_id, InCritical) = 1
          /\ (r.pc = "acquiring" /\ Blocked(r)) => ConnectionsInUse = MaxConnections

\* two guilds inside their critical sections at once, a third call waiting
\* for the lock of one of them
C4_Witness ==
    \E g, g2 \in Guilds :
        /\ g # g2
        /\ CallsAt(g, InCritical) = 1
        /\ CallsAt(g2, InCritical) = 1
        /\ CallsAt(g, {"begun"}) >= 1

\* the tier table as documented: counts 0..3, and the last tier from 4 on
DocumentedTier(n) ==
    IF n >= 4 THEN 604800
    ELSE CASE n = 0 -> 300 [] n = 1 -> 1800 [] n = 2 -> 7200 [] n = 3 -> 86400

\* the guild has an escalation_config row with enabled = TRUE
EnabledConfig(g) == escalation_config[g] # <<>> /\ escalation_config[g][1].enabled

\* the rows of table warnings of (g, u) with warned_at >= now - warn_window_seconds
InWindow(g, u) ==
    Cardinality({i \in 1..Len(warnings) :
                    /\ warnings[i].guild_id = g
                    /\ warnings[i].user_id = u
                    /\ warnings[i].warned_at >= now - escalation_config[g][1].warn_window_seconds})

\* the auto_timeout cases of the ledger against (g, u)
AutoTimeoutCases(cases, g, u) ==
    {i \in 1..Len(cases) : /\ cases[i].guild_id = g
                           /\ cases[i].target_user_id = u
                           /\ cases[i].action = "auto_timeout"}

\* the handler in progress is about to call check_and_escalate
AtCheck == h.pc = "wf_check"

\* C5: with escalation enabled for the guild, an invocation of
\* check_and_escalate triggers (returns Some) if and only if the member's
\* warnings inside the warn window number at least warn_threshold.
C5_TriggersIffThreshold ==
    [][(AtCheck /\ EnabledConfig(h.guild)) =>
          ((h'.result # <<>>) <=>
           (InWindow(h.guild, h.user) >= escalation_config[h.guild][1].warn_threshold))]_vars

\* C6: with threshold 3 and windows 86400 / 604800, the check after the third
\* in-window warning returns timed_out, 300 s, tier 0 and leaves an
\* auto_timeout case of 300 s numbered AT1; the check after the fourth
\* warning, one auto_timeout case being in the ledger, returns tier 1, 1800 s.
C6_EndToEnd ==
    [][(/\ AtCheck
        /\ EnabledConfig(h.guild)
        /\ escalation_config[h.guild][1].warn_threshold = 3
        /\ escalation_config[h.guild][1].warn_window_seconds = 86400
        /\ escalation_config[h.guild][1].timeout_window_seconds = 604800) =>
          LET g == h.guild
              u == h.user
              prior == Cardinality(AutoTimeoutCases(mod_cases, g, u))
          IN /\ (InWindow(g, u) = 3 /\ RowsOf(g, "AT") = <<>>) =>
                   /\ h'.result = <<[timed_out |-> TRUE, timeout_seconds |-> 300, tier |-> 0]>>
                   /\ \E i \in AutoTimeoutCases(mod_cases', g, u) :
                         /\ mod_cases'[i].case_code = "AT"
                         /\ mod_cases'[i].action_case_number = 1
                         /\ mod_cases'[i].duration_seconds = 300
             /\ (InWindow(g, u) = 4 /\ prior = 1) =>
                   h'.result = <<[timed_out |-> TRUE, timeout_seconds |-> 1800, tier |-> 1]>>]_vars

\* C7: escalation_timeout_seconds returns 300, 1800, 7200, 86400 for the
\* counts 0, 1, 2, 3 and 604800 for every count from 4 on; over the counts
\* it receives it is monotonically non-decreasing and never exceeds 604800.
C7_TierTable ==
    /\ \A i \in 1..Len(evaluated) :
          /\ evaluated[i].timeout_seconds = DocumentedTier(evaluated[i].previous_timeout_count)
          /\ evaluated[i].timeout_seconds <= 604800
    /\ \A i, j \in 1..Len(evaluated) :
          evaluated[i].previous_timeout_count <= evaluated[j].previous_timeout_count
              => evaluated[i].timeout_seconds <= evaluated[j].timeout_seconds

\* the table was evaluated at the last listed count and then far beyond it
C7_Witness ==
    /\ Len(evaluated) = 2
    /\ evaluated[2].previous_timeout_count = 3
    /\ evaluated[1].previous_timeout_count = 100

\* C8: when the guild has no escalation_config row, or a row with
\* enabled = FALSE, check_and_escalate returns None and changes nothing: no
\* platform timeout, no case, no case event, no notification, no warning row.
C8_DisabledChangesNothing ==
    [][(AtCheck /\ ~EnabledConfig(h.guild)) =>
          /\ h'.result = <<>>
          /\ UNCHANGED <<mod_cases, mod_case_events, member_timeouts, sent, warnings>>]_vars

\* check_and_escalate has returned None for a member with three or more
\* warnings in a guild whose row is disabled
C8_Witness ==
    /\ h.pc = "wf_case"
    /\ h.checked
    /\ h.result = <<>>
    /\ escalation_config[h.guild] # <<>>
    /\ ~escalation_config[h.guild][1].enabled
    /\ Len(WarningsOf(warnings, h.guild, h.user)) >= 3
    /\ moderation_cases.exists

\* C9: every invocation of check_and_escalate made while the member's
\* in-window warnings are at or above the threshold triggers and records one
\* further auto_timeout case; an invocation below the threshold (as after the
\* warnings were cleared) does neither.
C9_RetriggersEveryTime ==
    [][(AtCheck /\ EnabledConfig(h.guild)) =>
          LET g == h.guild
              u == h.user
          IN IF InWindow(g, u) >= escalation_config[g][1].warn_threshold
             THEN /\ h'.result # <<>>
                  /\ Cardinality(AutoTimeoutCases(mod_cases', g, u))
                       = Cardinality(AutoTimeoutCases(mod_cases, g, u)) + 1
             ELSE /\ h'.result = <<>>
                  /\ mod_cases' = mod_cases]_vars

\* C10: a handler that has appended a warning has, by the time it is done,
\* called check_and_escalate for that member.
C10_WarningThenCheck == (h.pc = "idle" /\ h.warned) => h.checked

\* the database calls of check_and_escalate
DbCalls == {"config_read", "warn_count", "timeout_count", "create_case"}

\* the case the step has just committed
NewestCase == mod_cases'[Len(mod_cases')]

\* the step commits exactly one case with its 'created' event and touches no
\* earlier row
CommitsOneCase ==
    /\ Len(mod_cases') = Len(mod_cases) + 1
    /\ SubSeq(mod_cases', 1, Len(mod_cases)) = mod_cases
    /\ Len(mod_case_events') = Len(mod_case_events) + 1
    /\ SubSeq(mod_case_events', 1, Len(mod_case_events)) = mod_case_events
    /\ mod_case_events'[Len(mod_case_events')].case_id = NewestCase.id
    /\ mod_case_events'[Len(mod_case_events')].event_type = "created"

\* C11: when check_and_escalate has reached the platform timeout and the
\* platform refuses it, the check still returns a triggered result with the
\* tier duration and, create_case succeeding, records the auto_timeout case
\* with that duration; the member is not timed out.
C11_CaseDespitePlatformFailure ==
    [][(AtCheck /\ "edit_member" \in h'.failed) =>
          /\ h'.result # <<>>
          /\ h'.result[1].timed_out
          /\ h'.result[1].timeout_seconds = DocumentedTier(h'.result[1].tier)
          /\ member_timeouts' = member_timeouts
          /\ "create_case" \notin h'.failed =>
                /\ CommitsOneCase
                /\ NewestCase.action = "auto_timeout"
                /\ NewestCase.guild_id = h.guild
                /\ NewestCase.target_user_id = h.user
                /\ NewestCase.status = "completed"
                /\ NewestCase.duration_seconds = h'.result[1].timeout_seconds]_vars

\* the platform refused the timeout, the check returned a triggered result
\* and the auto_timeout case of the member is in the ledger
C11_Witness ==
    /\ h.pc = "wf_case"
    /\ "edit_member" \in h.failed
    /\ h.result # <<>>
    /\ member_timeouts[<<h.guild, h.user>>] = 0
    /\ AutoTimeoutCases(mod_cases, h.guild, h.user) # {}

\* C12: a database error inside check_and_escalate ends the check at the
\* failing call (no case, no event, no notification after it; no result and
\* no platform timeout when a read failed), the handler carries on without
\* an error, and the warning recorded before the check stays recorded.
C12_DbErrorsSwallowed ==
    [][(AtCheck /\ h'.failed \cap DbCalls # {}) =>
          /\ warnings' = warnings
          /\ h.warned => Len(WarningsOf(warnings', h.guild, h.user)) = h.warn_number
          /\ h'.pc = "wf_case"
          /\ ~h'.error
          /\ mod_cases' = mod_cases
          /\ mod_case_events' = mod_case_events
          /\ sent' = sent
          /\ h'.failed \cap {"config_read", "warn_count", "timeout_count"} # {} =>
                h'.result = <<>> /\ member_timeouts' = member_timeouts]_vars

\* create_case failed inside the check that followed a recorded warning
C12_Witness ==
    /\ h.pc = "wf_case"
    /\ h.checked
    /\ h.warned
    /\ "create_case" \in h.failed
    /\ Len(WarningsOf(warnings, h.guild, h.user)) = h.warn_number

\* C20: when create_case has committed and the modlog publish or the DM
\* fails, the step leaves exactly the new case and its 'created' event behind,
\* alters no earlier row, and the caller still gets the case label
\* (create_case_and_publish) or the triggered result (check_and_escalate).
C20_NotificationFailureKeepsCase ==
    [][(/\ h.pc \in {"wf_check", "warn_case", "wf_case", "unwarn_case"}
        /\ h'.failed \cap {"publish", "dm"} # {}
        /\ "create_case" \notin h'.failed) =>
          /\ CommitsOneCase
          /\ h.pc = "wf_check" => h'.result # <<>> /\ h'.result[1].timed_out
          /\ h.pc \in {"warn_case", "unwarn_case"} =>
                h'.label = <<<<NewestCase.case_code, NewestCase.action_case_number>>>>]_vars

\* the warn command got its case label although the modlog publish failed
C20_Witness ==
    /\ h.pc = "idle"
    /\ h.kind = "warn"
    /\ "publish" \in h.failed
    /\ h.label # <<>>
    /\ \E i \in 1..Len(mod_cases) : <<mod_cases[i].case_code, mod_cases[i].action_case_number>> = h.label[1]

\* in this step a direct call of the store function op returns
Called(op) ==
    /\ ret'.op = op
    /\ IF op = "record_warning"
       THEN recording' # recording /\ calls' = calls
       ELSE /\ recording' = recording
            /\ calls' # calls \/ ret' # ret

\* no committed case carries the label l = <<guild, case_code, action_case_number>>
NoSuchCase(l) ==
    \A i \in 1..Len(mod_cases) :
        ~(/\ mod_cases[i].guild_id = l[1]
          /\ mod_cases[i].case_code = l[2]
          /\ mod_cases[i].action_case_number = l[3])

\* C13: a created case has exactly its 'created' event; every successful
\* update_case_reason adds exactly one event at the end of what
\* get_case_events returns for the case, a 'reason_updated' carrying the
\* reason the case had just before as old_reason and the new reason as
\* new_reason, the 'created' event staying first: after k edits, k + 1 events.
C13_ReasonEditsInEvents ==
    [][/\ Called("create_case") =>
             LET c == ret'.rows[1]
                 evs == get_case_events(mod_cases', mod_case_events', c.guild_id,
                                        c.case_code, c.action_case_number)
             IN Len(evs) = 1 /\ evs[1].event_type = "created"
       /\ (Called("update_case_reason") /\ ret'.ok) =>
             LET l == ret'.label
                 before == get_case_events(mod_cases, mod_case_events, l[1], l[2], l[3])
                 after == get_case_events(mod_cases', mod_case_events', l[1], l[2], l[3])
                 edited == CHOOSE i \in 1..Len(mod_cases) :
                               /\ mod_cases[i].guild_id = l[1]
                               /\ mod_cases[i].case_code = l[2]
                               /\ mod_cases[i].action_case_number = l[3]
             IN /\ Len(after) = Len(before) + 1
                /\ SubSeq(after, 1, Len(before)) = before
                /\ after[1].event_type = "created"
                /\ after[Len(after)].event_type = "reason_updated"
                /\ after[Len(after)].old_reason = mod_cases[edited].reason
                /\ after[Len(after)].new_reason = ret'.text
                /\ mod_cases'[edited].reason = ret'.text]_vars

\* get_case_events has returned three events for a case edited twice: the
\* 'created' event, then the two edits in the order made
C13_Witness ==
    /\ ret.op = "get_case_events"
    /\ Len(ret.rows) = 3
    /\ ret.rows[1].event_type = "created"
    /\ ret.rows[2].event_type = "reason_updated"
    /\ ret.rows[3].event_type = "reason_updated"
    /\ ret.rows[2].old_reason = <<"r">>
    /\ ret.rows[3].old_reason = ret.rows[2].new_reason
    /\ ret.rows[3].new_reason # ret.rows[2].new_reason
    /\ ret.rows[2].created_at < ret.rows[3].created_at

\* C14: called with a label that matches no case, get_case_by_label returns
\* None, get_case_events an empty list, update_case_reason None and
\* add_case_note false, and no case row or case event changes.
C14_MissingLabel ==
    [][\A op \in {"get_case_by_label", "get_case_events", "update_case_reason",
                  "add_case_note"} :
          (Called(op) /\ NoSuchCase(ret'.label)) =>
             /\ ~ret'.ok
             /\ ret'.rows = <<>>
             /\ UNCHANGED <<mod_cases, mod_case_events>>]_vars

\* add_case_note has returned false for a label whose code and number exist
\* in another guild only
C14_Witness ==
    /\ ret.op = "add_case_note"
    /\ ~ret.ok
    /\ NoSuchCase(ret.label)
    /\ \E i \in 1..Len(mod_cases) :
          /\ mod_cases[i].case_code = ret.label[2]
          /\ mod_cases[i].action_case_number = ret.label[3]

\* the rows of member <<g, u>> in table ws, as a set
RowsOfMember(ws, g, u) ==
    {ws[i] : i \in {j \in 1..Len(ws) : ws[j].guild_id = g /\ ws[j].user_id = u}}

\* row a comes before row b in ascending (warned_at, id) order
Before(a, b) == a.warned_at < b.warned_at \/ (a.warned_at = b.warned_at /\ a.id < b.id)

\* C15: remove_warning_by_number(guild, user, n) deletes exactly the member's
\* n-th warning in ascending (warned_at, id) order, in one step, and returns
\* true; when the member has fewer than n warnings (or n = 0) nothing is
\* deleted and it returns false. Every other row stays, in the same order.
C15_RemovesNthWarning ==
    [][Called("remove_warning_by_number") =>
          LET g == ret'.args[1]
              u == ret'.args[2]
              n == ret'.args[3]
              mine == RowsOfMember(warnings, g, u)
              nth == {w \in mine : Cardinality({x \in mine : Before(x, w)}) = n - 1}
              Stays(w) == w \notin nth
          IN /\ warnings' = SelectSeq(warnings, Stays)
             /\ IF n \in 1..Cardinality(mine)
                THEN ret'.ok /\ Cardinality(nth) = 1
                     /\ Len(warnings') = Len(warnings) - 1
                ELSE ~ret'.ok /\ warnings' = warnings]_vars

\* a member warned at three different times has had warning #2 removed twice
\* (the one of the second time, then the one of the third time): the first
\* warning is the one left
C15_Witness ==
    /\ ret.op = "remove_warning_by_number"
    /\ ret.ok
    /\ ret.args[3] = 2
    /\ warn_numbers[<<ret.args[1], ret.args[2]>>] = <<1, 2, 3>>
    /\ now >= 172800
    /\ LET mine == WarningsOf(warnings, ret.args[1], ret.args[2])
       IN Len(mine) = 1 /\ mine[1].id = 1 /\ mine[1].warned_at = 0

\* C16: the insert of record_warning adds exactly one row, for the member,
\* with warned_at equal to the clock at the call, and leaves every other row
\* as it is; the warn_number then returned is the member's total number of
\* rows at the count, whatever their age.
C16_RecordAppendsAndCounts ==
    [][/\ \A p \in recording' \ recording :
             LET added == warnings'[Len(warnings')]
             IN /\ Len(warnings') = Len(warnings) + 1
                /\ SubSeq(warnings', 1, Len(warnings)) = warnings
                /\ added.guild_id = p.guild_id /\ added.user_id = p.user_id
                /\ added.warned_at = now
       /\ \A p \in recording \ recording' :
             /\ Called("record_warning")
             /\ ret'.args = <<p.guild_id, p.user_id>>
             /\ ret'.count = Cardinality(RowsOfMember(warnings, p.guild_id, p.user_id))
             /\ warnings' = warnings]_vars

\* record_warning has returned 2 for a member whose earlier warning is two
\* days old
C16_Witness ==
    /\ ret.op = "record_warning"
    /\ ret.count = 2
    /\ LET mine == WarningsOf(warnings, ret.args[1], ret.args[2])
       IN /\ Len(mine) = 2
          /\ mine[2].warned_at = now
          /\ mine[1].warned_at + 172800 <= now

Recording(m) == {p \in recording : p.guild_id = m[1] /\ p.user_id = m[2]}

C18_ReadAfterWriteSeesIt ==
    \A r \in Readers :
        (procs[r].pc = "idle" /\ procs[r].result # <<>> /\ procs[r].expect # <<>>) =>
            procs[r].result = procs[r].expect

\* C19 (as stated): a config write whose statement on the database has
\* succeeded returns Ok, whether or not its cache delete has failed.
C19_CacheFailureNeverFailsWrite ==
    \A w \in Writers :
        (procs[w].pc = "idle" /\ procs[w].result # <<>>) => procs[w].result = <<"ok">>

\* the action -> code table of the Case Ledger, as a set of pairs
CodeTable ==
    {<<"warn", "W">>, <<"ban", "B">>, <<"kick", "K">>, <<"timeout", "T">>,
     <<"unban", "UB">>, <<"untimeout", "UT">>, <<"unwarn", "UW">>,
     <<"unwarn_all", "UWA">>, <<"purge", "P">>, <<"terminate", "TR">>,
     <<"auto_timeout", "AT">>}
InCodeTable(action) == \E p \in CodeTable : p[1] = action
\* the names that start with word_filter_, among the names of the runs
WordFilterNamed == {"word_filter_timeout", "word_filter_delete", "word_filter_log",
                    "word_filter_warn"} \cup OtherWordFilterActions
\* the four names the word filter passes to create_case
WordFilterActions == {"word_filter_timeout", "word_filter_delete", "word_filter_log",
                      "word_filter_warn"}

\* C22 (as stated): the code derived from an action is the one of the table;
\* every action whose name starts with word_filter_ maps to WF and every
\* other action maps to M.
C22_CodeTableWithPrefix ==
    ret.op = "action_code" =>
        LET action == ret.text[1]
            code == ret.text[2]
        IN /\ \A p \in CodeTable : p[1] = action => code = p[2]
           /\ action \in WordFilterNamed => code = "WF"
           /\ (~InCodeTable(action) /\ action \notin WordFilterNamed) => code = "M"

\* C22 (amended): the code derived from an action is the one of the table;
\* exactly the four actions word_filter_timeout, word_filter_delete,
\* word_filter_log and word_filter_warn map to WF, and every other action,
\* any other name starting with word_filter_ included, maps to M.
C22_CodeTableExact ==
    ret.op = "action_code" =>
        LET action == ret.text[1]
            code == ret.text[2]
        IN /\ \A p \in CodeTable : p[1] = action => code = p[2]
           /\ action \in WordFilterActions => code = "WF"
           /\ (~InCodeTable(action) /\ action \notin WordFilterActions) => code = "M"

C22_Witness ==
    /\ ret.op = "action_code"
    /\ ret.text = <<"word_filter_kick", "M">>

\* the input has no letter prefix, no number part, or the number 0
NoLetterPrefix(input) == input = <<>> \/ ~is_ascii_alphabetic(input[1])
NoNumberPart(input) == \A i \in 1..Len(input) : is_ascii_alphabetic(input[i])
NumberZero(input) ==
    \E k \in 1..Len(input) - 1 :
        /\ \A i \in 1..k : is_ascii_alphabetic(input[i])
        /\ \A i \in k + 1..Len(input) : input[i] = "0"

\* C24: for every non-empty ASCII-alphabetic code and every n > 0,
\* parse_case_label(format_case_label(code, n)) is (uppercase(code), n), with
\* or without surrounding whitespace; an input with no letter prefix, no
\* number part or the number 0 parses to None.
C24_ParseInvertsFormat ==
    /\ ret.op = "format_case_label" =>
          \A l \in Paddings, r \in Paddings :
              parse_case_label(l \o ret.rows \o r) =
                  [some |-> TRUE, code |-> to_ascii_uppercase(ret.text),
                   number |-> ret.count]
    /\ ret.op = "parse_case_label" =>
          LET inner == IF \E i \in 1..Len(ret.rows) : ret.rows[i] # " "
                   THEN SubSeq(ret.rows,
                               CHOOSE i \in 1..Len(ret.rows) :
                                   /\ ret.rows[i] # " "
                                   /\ \A j \in 1..i - 1 : ret.rows[j] = " ",
                               CHOOSE i \in 1..Len(ret.rows) :
                                   /\ ret.rows[i] # " "
                                   /\ \A j \in i + 1..Len(ret.rows) : ret.rows[j] = " ")
                   ELSE <<>>
          IN /\ (NoLetterPrefix(inner) \/ NoNumberPart(inner) \/ NumberZero(inner))
                   => ~ret.ok
             /\ \A code \in LabelCodes, n \in LabelNumbers :
                   to_ascii_uppercase(inner) = format_case_label(code, n) =>
                       /\ ret.ok
                       /\ ret.text = to_ascii_uppercase(code)
                       /\ ret.count = n

C24_Witness ==
    /\ ret.op = "parse_case_label"
    /\ ret.rows = <<" ", " ", "w", "A", "1", "0", "5", " ">>
    /\ ret.ok
    /\ ret.text = <<"W", "A">>
    /\ ret.count = 105

\* a Duration between 1 and 3600 seconds
WindowInRange(window) ==
    /\ window.secs >= 1
    /\ window.secs < 3600 \/ (window.secs = 3600 /\ window.subsec_nanos = 0)

\* the arguments of the last configure_llm_rate_limit
ConfiguredWindow == [secs |-> ret.args[1], subsec_nanos |-> ret.args[2]]
ConfiguredMaxHits == ret.args[3]

\* the configured rate limit is within its bounds
RateLimitInBounds ==
    /\ llm_rate_limit.window.secs >= 1
    /\ WindowInRange(llm_rate_limit.window)
    /\ llm_rate_limit.max_hits >= 1

\* C25 (as stated): the configured window is always within 1 and 3600
\* seconds and max_hits at least 1, and configure_llm_rate_limit stores an
\* in-range window and an in-range max_hits unchanged.
C25_ClampsLeavingInRangeUnchanged ==
    /\ RateLimitInBounds
    /\ ret.op = "configure_llm_rate_limit" =>
          /\ WindowInRange(ConfiguredWindow) => llm_rate_limit.window = ConfiguredWindow
          /\ ConfiguredMaxHits >= 1 => llm_rate_limit.max_hits = ConfiguredMaxHits

\* C25 (amended): the configured window is always within 1 and 3600 seconds
\* and max_hits at least 1; configure_llm_rate_limit stores the whole seconds
\* of the window clamped to 1..3600, dropping any sub-second part, and
\* max_hits raised to at least 1, so an in-range window of whole seconds and
\* an in-range max_hits are stored unchanged.
C25_ClampsWholeSeconds ==
    /\ RateLimitInBounds
    /\ ret.op = "configure_llm_rate_limit" =>
          /\ llm_rate_limit.window.subsec_nanos = 0
          /\ ConfiguredWindow.secs < 1 => llm_rate_limit.window.secs = 1
          /\ ConfiguredWindow.secs > 3600 => llm_rate_limit.window.secs = 3600
          /\ ConfiguredWindow.secs \in 1..3600 =>
                llm_rate_limit.window.secs = ConfiguredWindow.secs
          /\ ConfiguredMaxHits < 1 => llm_rate_limit.max_hits = 1
          /\ ConfiguredMaxHits >= 1 => llm_rate_limit.max_hits = ConfiguredMaxHits

C25_Witness ==
    /\ ret.op = "configure_llm_rate_limit"
    /\ ret.args = <<1, 500000000, 0>>
    /\ llm_rate_limit = [window |-> [secs |-> 1, subsec_nanos |-> 0], max_hits |-> 1]

\* C21: a run of ensure_case_schema_compat that follows an earlier run leaves
\* every row's (case_code, action_case_number) as the earlier run left it,
\* whatever the historical rows were.
C21_BackfillIdempotent ==
    [][(schema'.runs = schema.runs + 1 /\ schema.runs >= 1) =>
          /\ Len(mod_cases') = Len(mod_cases)
          /\ \A i \in 1..Len(mod_cases) :
                /\ mod_cases'[i].id = mod_cases[i].id
                /\ mod_cases'[i].case_code = mod_cases[i].case_code
                /\ mod_cases'[i].action_case_number = mod_cases[i].action_case_number
          /\ schema'.result = schema.result]_vars

\* two runs have succeeded, the first changed a row, and the second met a
\* row under its guard (code M) again
C21_Witness ==
    /\ schema.runs = 2
    /\ schema.result = "ok"
    /\ schema.changed
    /\ \E i, j \in 1..Len(mod_cases) :
          /\ mod_cases[i].case_code = "M" /\ mod_cases[i].action_case_number = 2
          /\ mod_cases[j].case_code = "W" /\ mod_cases[j].action_case_number = 1

\* the cases of guild g that pass every filter given in a listing
Listed(g, target, moderator, action) ==
    {mod_cases[i] : i \in {j \in 1..Len(mod_cases) :
        /\ mod_cases[j].guild_id = g
        /\ target # Null => mod_cases[j].target_user_id = target
        /\ moderator # Null => mod_cases[j].moderator_user_id = moderator
        /\ action # <<>> => Lower(mod_cases[j].action) = Lower(action[1])}}

\* C23: list_recent_cases returns, in descending case_number order, the
\* min(clamp(limit, 1, 200), number of matching cases) highest-numbered cases
\* of the guild that match every given filter (target, moderator, action
\* compared case-insensitively), and changes no stored state.
C23_ListsHighestMatching ==
    [][(ret'.op = "list_recent_cases" /\ calls' # calls) =>
          LET wanted == Listed(ret'.args[1], ret'.args[2], ret'.args[3], ret'.text)
              limit == ret'.args[4]
              clamped == IF limit < 1 THEN 1 ELSE IF limit > 200 THEN 200 ELSE limit
              rows == ret'.rows
              returned == {rows[k] : k \in 1..Len(rows)}
          IN /\ Len(rows) = IF Cardinality(wanted) < clamped THEN Cardinality(wanted)
                            ELSE clamped
             /\ \A k \in 1..Len(rows) : \E r \in wanted : rows[k] = CaseSummary(r)
             /\ \A k \in 1..Len(rows) - 1 : rows[k].case_number > rows[k + 1].case_number
             /\ \A r \in wanted :
                   CaseSummary(r) \notin returned =>
                       \A k \in 1..Len(rows) : r.case_number < rows[k].case_number
             /\ UNCHANGED <<ledger, warnings, escalation_config, moderation_cases,
                            member_timeouts, config_row, cache_entry, schema>>]_vars

\* a listing cut at the greatest limit, with an action filter in another
\* letter case
C23_Witness ==
    /\ ret.op = "list_recent_cases"
    /\ ret.text = <<"WARN">>
    /\ ret.args[4] > MaxLimit
    /\ Len(ret.rows) = MaxLimit
    /\ Len(mod_cases) > MaxLimit
    /\ ret.rows[1].case_number = Len(mod_cases)

\* the timeout-type cases of the ledger against (g, u) created at or after since
TimeoutTypeCases(cases, g, u, since) ==
    {i \in 1..Len(cases) :
        /\ cases[i].guild_id = g
        /\ cases[i].target_user_id = u
        /\ cases[i].action \in {"timeout", "auto_timeout", "word_filter_timeout"}
        /\ cases[i].created_at >= since}

\* C27: the tier of a check_and_escalate that triggers is the number of
\* cases of the ledger (table mod_cases, as written by create_case) against
\* the same guild and user whose action is timeout, auto_timeout or
\* word_filter_timeout and whose created_at >= now - timeout_window_seconds.
C27_TierCountsLedgerCases ==
    [][(AtCheck /\ h'.result # <<>>) =>
          h'.result[1].tier =
              Cardinality(TimeoutTypeCases(mod_cases, h.guild, h.user,
                  now - escalation_config[h.guild][1].timeout_window_seconds))]_vars

\* the reason every create_case of the edit runs is called with
CreationReason == <<"r">>

\* the reason_updated events of case c, in commit order
ReasonEvents(c) ==
    LET Edits(e) == e.case_id = c.id /\ e.event_type = "reason_updated"
    IN SelectSeq(mod_case_events, Edits)

\* C26: under any interleaving of concurrent update_case_reason calls, the
\* reason_updated events of a case form one chain in the order in which the
\* calls committed, which is the order of the events' ids: the first event's
\* old_reason is the reason the case was created with, every later event's
\* old_reason is the new_reason of the event before it, and the stored reason
\* is the new_reason of the last event.  (created_at is read before the row
\* lock is taken, so it need not follow this order.)
C26_ReasonEventsChain ==
    \A i \in 1..Len(mod_cases) :
        LET c == mod_cases[i]
            evs == ReasonEvents(c)
        IN /\ \A k \in 1..Len(evs) - 1 : evs[k].id < evs[k + 1].id
           /\ \A k \in 1..Len(evs) :
                 evs[k].old_reason = IF k = 1 THEN CreationReason ELSE evs[k - 1].new_reason
           /\ c.reason = IF evs = <<>> THEN CreationReason ELSE evs[Len(evs)].new_reason

\* two edits of one case that overlapped: the one that committed second had
\* read the clock first
C26_Witness ==
    \E i \in 1..Len(mod_cases) :
        LET evs == ReasonEvents(mod_cases[i])
        IN /\ Len(evs) = 2
           /\ evs[1].created_at > evs[2].created_at
           /\ evs[1].new_reason # evs[2].new_reason
           /\ mod_cases[i].reason = evs[2].new_reason

\* a row with the columns an edit may write set aside
Unedited(row) == [row EXCEPT !.reason = <<>>, !.updated_at = 0]

\* C28: an update_case_reason that returns Some changes the reason and
\* updated_at of the case of its label and appends one reason_updated event
\* of that case; an add_case_note that returns true changes updated_at of
\* the case of its label and appends one note_added event of that case;
\* no other column of the case, no other case and no other event changes.
C28_EditFrame ==
    [][(/\ ret'.ok
        /\ ret'.op \in {"update_case_reason", "add_case_note"}
        /\ \E x \in edits : x.pc = "locked" /\ edits' = edits \ {x}) =>
          LET e == CHOOSE x \in edits : x \notin edits'
              i == CHOOSE k \in 1..Len(mod_cases) :
                      /\ mod_cases[k].guild_id = e.label[1]
                      /\ mod_cases[k].case_code = e.label[2]
                      /\ mod_cases[k].action_case_number = e.label[3]
              n == Len(mod_case_events)
          IN /\ Len(mod_cases') = Len(mod_cases)
             /\ \A k \in 1..Len(mod_cases) : k # i => mod_cases'[k] = mod_cases[k]
             /\ Unedited(mod_cases'[i]) = Unedited(mod_cases[i])
             /\ mod_cases'[i].updated_at = e.now
             /\ mod_cases'[i].reason = IF e.op = "update_case_reason" THEN e.text
                                       ELSE mod_cases[i].reason
             /\ Len(mod_case_events') = n + 1
             /\ SubSeq(mod_case_events', 1, n) = mod_case_events
             /\ mod_case_events'[n + 1].case_id = mod_cases[i].id
             /\ mod_case_events'[n + 1].event_type =
                   IF e.op = "update_case_reason" THEN "reason_updated" ELSE "note_added"]_vars

\* a note added to a case a clock step after its creation: updated_at has
\* moved, the reason has not
C28_Witness ==
    /\ ret.op = "add_case_note"
    /\ ret.ok
    /\ \E i \in 1..Len(mod_cases) :
          /\ <<mod_cases[i].guild_id, mod_cases[i].case_code,
               mod_cases[i].action_case_number>> = ret.label
          /\ mod_cases[i].updated_at > mod_cases[i].created_at
          /\ mod_cases[i].reason = CreationReason
          /\ \E k \in 1..Len(mod_case_events) :
                /\ mod_case_events[k].event_type = "note_added"
                /\ mod_case_events[k].case_id = mod_cases[i].id

\* s is t with some elements left out
RECURSIVE IsSubsequence(_, _)
IsSubsequence(s, t) ==
    IF s = <<>> THEN TRUE
    ELSE IF t = <<>> THEN FALSE
    ELSE IF Head(s) = Head(t) THEN IsSubsequence(Tail(s), Tail(t))
    ELSE IsSubsequence(s, Tail(t))

\* C29: no step removes a case, and for every label the list get_case_events
\* returns after a step holds every event it returned before the step,
\* unchanged and in the same relative order.
C29_EventsAppendOnly ==
    [][/\ \A i \in 1..Len(mod_cases) :
             \E j \in 1..Len(mod_cases') : mod_cases'[j].id = mod_cases[i].id
       /\ \A l \in EditLabels :
             IsSubsequence(get_case_events(mod_cases, mod_case_events, l[1], l[2], l[3]),
                           get_case_events(mod_cases', mod_case_events', l[1], l[2], l[3]))
       /\ \A k \in 1..Len(mod_case_events) :
             \E j \in 1..Len(mod_case_events') : mod_case_events'[j] = mod_case_events[k]]_vars

\* a note that was committed after a reason edit and is listed before it
C29_Witness ==
    \E l \in EditLabels :
        LET listed == get_case_events(mod_cases, mod_case_events, l[1], l[2], l[3])
        IN /\ Len(listed) = 3
           /\ listed[2].event_type = "note_added"
           /\ listed[3].event_type = "reason_updated"
           /\ \E j, k \in 1..Len(mod_case_events) :
                 /\ j < k
                 /\ mod_case_events[j].event_type = "reason_updated"
                 /\ mod_case_events[k].event_type = "note_added"

\* some call is in flight
InProgress == txs # EmptyBag \/ edits # {}

\* the keys locked by the create_case calls between their lock statement and
\* the end of their transaction
HeldKeys ==
    {r.new_case.guild_id :
        r \in {x \in InFlight : x.pc \in {"locked", "numbered", "coded", "case_inserted",
                                           "event_inserted"}}}

\* C30: under fair scheduling the calls in flight all come to their end
\* (commit, or failure with nothing written); a guild's lock is held only by a
\* create_case inside its transaction and is always released again, so a
\* create_case that waits for it proceeds; and whenever a create_case,
\* update_case_reason or add_case_note is in flight, one of them can take
\* its next step: there is no deadlock.
C30_CallsEndLocksReleased ==
    /\ <>[](~InProgress /\ advisory_lock = {})
    /\ \A g \in Guilds : (g \in advisory_lock) ~> (g \notin advisory_lock)
    /\ \A g \in Guilds : (CallsAt(g, {"begun"}) > 0) ~> (CallsAt(g, {"begun"}) = 0)
    /\ [](advisory_lock = HeldKeys)
    /\ [](InProgress => ENABLED (CreateCaseProgress \/ EditProgress))

\* a create_case waits for its guild's lock, held by another, while an edit
\* is in flight
C30_Witness ==
    /\ CallsAt(1, {"begun"}) > 0
    /\ CallsAt(1, InCritical) > 0
    /\ 1 \in advisory_lock
    /\ edits # {}

\* C31: whenever check_and_escalate returns a result with timed_out = TRUE,
\* the call has committed an auto_timeout case against that guild and member
\* with status completed and duration_seconds equal to the returned
\* timeout_seconds.
C31_TimedOutHasCase ==
    [][(AtCheck /\ h'.result # <<>> /\ h'.result[1].timed_out) =>
          /\ CommitsOneCase
          /\ NewestCase.action = "auto_timeout"
          /\ NewestCase.guild_id = h.guild
          /\ NewestCase.target_user_id = h.user
          /\ NewestCase.status = "completed"
          /\ NewestCase.duration_seconds = h'.result[1].timeout_seconds]_vars

\* the evaluations of check_and_escalate for (g, u) that have triggered
Escalations(g, u) ==
    {c \in checks : c.guild = g /\ c.user = u /\ c.result # <<>>}

\* the case row with the given id
CaseById(id) == CHOOSE r \in {mod_cases[i] : i \in 1..Len(mod_cases)} : r.id = id

\* the timeout-type cases against (g, u) committed before case `mine` and
\* created inside the timeout window that ends with it
TimeoutsBefore(g, u, mine, window) ==
    {i \in 1..Len(mod_cases) :
        /\ mod_cases[i].guild_id = g
        /\ mod_cases[i].target_user_id = u
        /\ mod_cases[i].action \in {"timeout", "auto_timeout", "word_filter_timeout"}
        /\ mod_cases[i].id < mine.id
        /\ mod_cases[i].created_at >= mine.created_at - window}

\* C32: for one member of one guild, the tier recorded by each escalation is
\* the number of the member's timeout-type cases committed before it inside
\* the timeout window, also when evaluations for the member run concurrently;
\* so two escalations whose cases both lie in the window never record the
\* same tier.
C32_TierCountsEarlierCases ==
    \A g \in Guilds, u \in Users :
        /\ \A c \in Escalations(g, u) :
              c.result[1].tier =
                  Cardinality(TimeoutsBefore(g, u, CaseById(c.case[1]),
                                             c.config[1].timeout_window_seconds))
        /\ \A c, d \in Escalations(g, u) :
              (/\ c # d
               /\ CaseById(c.case[1]).created_at >= now - c.config[1].timeout_window_seconds
               /\ CaseById(d.case[1]).created_at >= now - d.config[1].timeout_window_seconds)
                  => c.result[1].tier # d.result[1].tier

\* the position of the row with the given id among the rows of (g, u), in
\* insertion order; 0 when the row is gone
PositionOf(g, u, id) ==
    LET mine == WarningsOf(warnings, g, u)
        at == {i \in 1..Len(mine) : mine[i].id = id}
    IN IF at = {} THEN 0 ELSE CHOOSE i \in at : TRUE

\* C33: record_warning calls for one member that run concurrently return
\* different warn_number values, each the position of the call's own warning
\* in insertion order (positions of different rows differ, so the second part
\* gives the first).
C33_ConcurrentWarnNumbers ==
    [][\A p \in recording \ recording' :
          PositionOf(p.guild_id, p.user_id, p.warning_id) > 0 =>
             ret'.count = PositionOf(p.guild_id, p.user_id, p.warning_id)]_vars

\* C34: on a ledger in which every row was created by create_case, a run of
\* ensure_case_schema_compat changes no row: every case keeps the
\* (case_code, action_case_number) that create_case gave it, the cases with
\* code M, WF or AT included.
C34_BackfillKeepsCreatedLabels ==
    [][schema'.runs # schema.runs => mod_cases' = mod_cases]_vars

\* C35: in the warn_and_log flow check_and_escalate is evaluated only after
\* the warning for the offending message has been appended to the Warning
\* Store; when record_warning fails, no escalation is evaluated for the
\* message.
C35_CheckOnlyAfterWarning ==
    (h.kind = "word_filter" /\ h.checked) => h.warned

\* C36: the warn command keeps the Warning Store and the Case Ledger in step:
\* when an invocation ends, successful or failed, the warning it recorded has
\* its 'warn' case against the same guild and member, and it has written no
\* 'warn' case without recording the warning.
C36_WarnCaseWithWarning ==
    [][/\ (h.pc = "warn_case" /\ h.warned) =>
             /\ CommitsOneCase
             /\ NewestCase.action = "warn"
             /\ NewestCase.guild_id = h.guild
             /\ NewestCase.target_user_id = h.user
       /\ (h.pc = "idle" /\ h'.kind = "warn" /\ h'.pc = "idle") =>
             /\ warnings' = warnings
             /\ mod_cases' = mod_cases]_vars

\* the cases with the given action that the step commits
NewCasesOf(actions) ==
    {i \in 1..Len(mod_cases') : i > Len(mod_cases) /\ mod_cases'[i].action \in actions}

\* C37: in `unwarn all`, clear_warnings runs and the unwarn_all case is
\* created only after the invoking moderator has confirmed; when the prompt is
\* declined or times out, no warning is deleted and no case is created.
C37_ClearOnlyAfterConfirm ==
    [][/\ (h.pc = "idle" /\ h'.kind = "unwarn_all") =>
             /\ warnings' = warnings
             /\ mod_cases' = mod_cases
       /\ (h.pc = "unwarn_prompt" /\ h'.interaction # <<"confirm">>) =>
             /\ h'.pc = "idle"
             /\ warnings' = warnings
             /\ mod_cases' = mod_cases
             /\ mod_case_events' = mod_case_events
       /\ (h'.kind = "unwarn_all" /\ warnings' # warnings) =>
             /\ h.pc = "unwarn_prompt"
             /\ h'.interaction = <<"confirm">>
       /\ NewCasesOf({"unwarn_all"}) # {} =>
             /\ h.pc = "unwarn_case"
             /\ h.interaction = <<"confirm">>]_vars

\* the moderator declined the prompt; the member's two warnings are still
\* there and the ledger holds no unwarn_all case
C37_Witness ==
    /\ h.kind = "unwarn_all"
    /\ h.pc = "idle"
    /\ h.interaction = <<"decline">>
    /\ ~h.error
    /\ Len(WarningsOf(warnings, h.guild, h.user)) = 2
    /\ \A i \in 1..Len(mod_cases) : mod_cases[i].action # "unwarn_all"

\* C38: the unwarn command records an 'unwarn' or 'unwarn_all' case only when
\* the invocation has removed at least one warning from the Warning Store.
C38_UnwarnCaseOnlyIfRemoved ==
    [][/\ (h'.pc \in {"unwarn_case", "unwarn_one_case"} /\ h.pc # h'.pc) =>
             h'.removed = Len(warnings) - Len(warnings')
       /\ NewCasesOf({"unwarn", "unwarn_all"}) # {} => h.removed >= 1]_vars

\* the read r takes its step at position `at` (a write in between changes
\* only what a read in progress expects)
ReadStep(r, at) ==
    /\ procs[r].pc = at
    /\ IF at = "idle" THEN procs'[r] # procs[r] ELSE procs'[r].pc # at

\* the cache command or the loader of the step has failed
StepFailed == faults' < faults

\* C39: get_or_load_json never fails because of the cache: a failed cache get
\* falls back to the loader, a failed cache set still returns the loaded
\* value; the read returns an error only when the loader itself fails, and
\* then it stores nothing in the cache.
C39_CacheNeverFailsRead ==
    [][\A r \in Readers :
          /\ (ReadStep(r, "idle") /\ StepFailed) =>
                /\ procs'[r].pc = "load"
                /\ ~procs'[r].error
          /\ (ReadStep(r, "load") /\ ~StepFailed) =>
                /\ procs'[r].pc = "set"
                /\ procs'[r].loaded = <<Load(config_kind, config_row)>>
                /\ ~procs'[r].error
          /\ ReadStep(r, "set") =>
                /\ procs'[r].pc = "idle"
                /\ ~procs'[r].error
                /\ procs'[r].result = procs[r].loaded
                /\ StepFailed => cache_entry' = cache_entry
          /\ procs'[r].error =>
                /\ procs'[r].pc = "idle"
                /\ procs'[r].result = <<>>
                /\ ~procs[r].error => /\ ReadStep(r, "load")
                                      /\ StepFailed
                                      /\ cache_entry' = cache_entry]_vars

\* after a write that went through, one read whose cache get failed and whose
\* cache set failed has returned the value of the database row, and the cache
\* holds nothing
C39_Witness ==
    \E r \in Readers :
        /\ procs[r].pc = "idle"
        /\ procs[r].result = <<Load(config_kind, config_row)>>
        /\ config_row # <<>>
        /\ ~procs[r].error
        /\ faults = 0
        /\ calls = MaxCacheCalls - 2
        /\ cache_entry = <<>>
        /\ \A q \in Readers \ {r} : procs[q] = IdleProc
        /\ \A w \in Writers : procs[w].pc = "idle" /\ procs[w].result = <<"ok">>

=============================================================================
